---- MODULE Spec2Model ----
(***************************************************************************)
(* The bracket-language engine of bedrot_custom_nodes: the scanner         *)
(* (BedrotSyntaxHighlighter.tokenize, web/bedrot_preview.js), the          *)
(* rendering of its spans (tokensToHTML), the resolver and whitespace      *)
(* normalizer that consume its spans, the highlighter's event handlers,    *)
(* and the properties claimed of them.  A text is a sequence of            *)
(* one-character strings; offsets are 0-based as in the JavaScript source, *)
(* so the character at offset p of text t is t[p + 1].                     *)
(*                                                                         *)
(* Spec     scans one text, then renders or resolves it.                   *)
(* HLSpec   runs one text-encode node: deferred set-up, the highlighter's  *)
(*          handlers and timers, toggle and removal.                       *)
(* NormSpec runs the three rules of the normalizer on one string.          *)
(* ImgSpec  runs the load-image node: group and image combos, requests for *)
(*          groups, images and uploads, and preview loads.                 *)
(* PreviewSpec runs the preview node: execution results and the widgets    *)
(*          made for them.                                                 *)
(***************************************************************************)
EXTENDS Integers, Sequences, FiniteSets, TLC

VARIABLES
    text,              \* the string handed to tokenize / resolve
    pc,                \* "scan" -> "tokenized" -> "rendered" or "done"
    pos,               \* tokenize: let pos
    tokens,            \* tokenize: const tokens
    bracketStack,      \* tokenize: const bracketStack
    inConditional,     \* tokenize: let inConditional
    conditionalDepth,  \* tokenize: let conditionalDepth
    validation,        \* tokenize: const validation
    rawOutput,         \* resolver: text after substitution, before normalization
    output,            \* resolver: the resolved string
    textarea,          \* highlighter: this.textarea [value, scrollTop, highlighted]
    backdrop,          \* highlighter: this.backdrop [innerHTML, display, scrollTop, attached]
    enabled,           \* highlighter: this.enabled
    lastText,          \* highlighter: this._lastText, <<>> for null, <<t>> for text t
    highlightTimeout,  \* highlighter: this._highlightTimeout: "null", "live" or "stale"
    timers,            \* callbacks waiting in the event loop [debounce, enter, frame]
    observing,         \* highlighter: the resize observer is connected
    burst,             \* history: highlight() calls that set a timer since the
                       \* debounce timer last fired, counted up to MaxBurst
    highlighters,      \* extension: the ids in the highlighters map
    txtNode,           \* the text-encode node [toggle, setup, restore, removed]
    groupWidget,       \* load-image node: the group combo [value, options]
    imageWidget,       \* load-image node: the image combo [value, options]
    fetches,           \* load-image node: the requests awaiting their response
                       \* [op, group, name], in the order they were sent
    imgs,              \* load-image node: node.imgs, <<>> or <<[group, filename]>>
    loads,             \* load-image node: preview images being loaded
    previewNode        \* the preview node [converted, widgets, frame, configured]

scanVars == <<pos, tokens, bracketStack, inConditional, conditionalDepth, validation>>
resVars == <<rawOutput, output>>
hlVars == <<textarea, backdrop, enabled, lastText, highlightTimeout, timers, observing,
            burst>>
extVars == <<highlighters, txtNode, previewNode>>
imgVars == <<groupWidget, imageWidget, fetches, imgs, loads>>
vars == <<text, pc, pos, tokens, bracketStack, inConditional, conditionalDepth,
          validation, rawOutput, output, textarea, backdrop, enabled, lastText,
          highlightTimeout, timers, observing, burst, highlighters, txtNode,
          groupWidget, imageWidget, fetches, imgs, loads, previewNode>>

----------------------------------------------------------------------------
(* Bounds of the model *)

\* Inputs are all concatenations of at most MaxPieces pieces, plus the
\* documented scenarios.
MaxPieces == 3

\* A bracket bypass is scanned over every body of at most MaxBypassBody
\* bracket characters.
MaxBypassBody == 4

----------------------------------------------------------------------------
(* Characters and string helpers *)

Digits == {"0", "1", "2", "3", "4", "5", "6", "7", "8", "9"}

DigitVal(c) ==
    CASE c = "0" -> 0 [] c = "1" -> 1 [] c = "2" -> 2 [] c = "3" -> 3
      [] c = "4" -> 4 [] c = "5" -> 5 [] c = "6" -> 6 [] c = "7" -> 7
      [] c = "8" -> 8 [] c = "9" -> 9

\* the regular expression class \s
Whitespace == {" ", "\n", "\t"}

\* text[p] of the source (0-based); "" stands for undefined (p out of range)
At(t, p) == IF p >= 0 /\ p < Len(t) THEN t[p + 1] ELSE ""

\* text.substring(a, b)
Substring(t, a, b) == SubSeq(t, a + 1, b)

\* remaining.startsWith(s), remaining = text.substring(p)
StartsWith(t, p, s) ==
    /\ p + Len(s) <= Len(t)
    /\ \A i \in 1..Len(s) : t[p + i] = s[i]

\* length of the longest run of characters of set S starting at offset p
RECURSIVE RunLen(_, _, _)
RunLen(t, p, S) ==
    IF p < Len(t) /\ t[p + 1] \in S THEN 1 + RunLen(t, p + 1, S) ELSE 0

\* length of the longest run of characters outside set S starting at offset p
RECURSIVE RunLenNot(_, _, _)
RunLenNot(t, p, S) ==
    IF p < Len(t) /\ t[p + 1] \notin S THEN 1 + RunLenNot(t, p + 1, S) ELSE 0

\* parseInt of a non-empty digit string
RECURSIVE ParseInt(_)
ParseInt(ds) ==
    IF Len(ds) = 0 THEN 0
    ELSE 10 * ParseInt(SubSeq(ds, 1, Len(ds) - 1)) + DigitVal(ds[Len(ds)])

----------------------------------------------------------------------------
(* Token types *)

TEXT == "text"
PAREN_OPEN == "paren-open"
PAREN_CLOSE == "paren-close"
PAREN_CONTENT == "paren-content"
PAREN_WEIGHT == "paren-weight"
CURLY_OPEN == "curly-open"
CURLY_CLOSE == "curly-close"
CURLY_PIPE == "curly-pipe"
FLAG_TOKEN == "flag-token"
COND_POS_DIRECTIVE == "cond-pos-dir"
COND_NEG_DIRECTIVE == "cond-neg-dir"
COND_CLOSE == "cond-close"
INVALID_TOKEN == "invalid-token"
UNBALANCED == "unbalanced"
TAG_BYPASS == "tag-bypass"

\* A token { type, value, start, end }; flagId is -1 where the source leaves it
\* undefined, isNested and unbalanced are FALSE where it leaves them undefined.
Tok(ty, v, a, b) ==
    [type |-> ty, value |-> v, start |-> a, end |-> b,
     flagId |-> -1, isNested |-> FALSE, unbalanced |-> FALSE]

----------------------------------------------------------------------------
(* The regular expressions of tokenize, as match lengths at offset p       *)
(* (0 = no match)                                                          *)

\* /^\[(\d+)\]/
FlagMatch(t, p) ==
    LET d == RunLen(t, p + 1, Digits) IN
    IF At(t, p) = "[" /\ d > 0 /\ At(t, p + 1 + d) = "]" THEN d + 2 ELSE 0

\* /^\[(\d+):\s*/
CondPosMatch(t, p) ==
    LET d == RunLen(t, p + 1, Digits) IN
    IF At(t, p) = "[" /\ d > 0 /\ At(t, p + 1 + d) = ":"
    THEN d + 2 + RunLen(t, p + d + 2, Whitespace) ELSE 0

\* /^\[(-\d+):\s*/
CondNegMatch(t, p) ==
    LET d == RunLen(t, p + 2, Digits) IN
    IF At(t, p) = "[" /\ At(t, p + 1) = "-" /\ d > 0 /\ At(t, p + 2 + d) = ":"
    THEN d + 3 + RunLen(t, p + d + 3, Whitespace) ELSE 0

\* /^\[-\d+\]/
InvalidNegMatch(t, p) ==
    LET d == RunLen(t, p + 2, Digits) IN
    IF At(t, p) = "[" /\ At(t, p + 1) = "-" /\ d > 0 /\ At(t, p + 2 + d) = "]"
    THEN d + 3 ELSE 0

\* the characters excluded from the content of /^\(([^()\[\]{}|]*?)(:\d+\.?\d*)?\)/
\* and the characters that end a plain-text run, /[\[\](){}|]/
Special == {"[", "]", "(", ")", "{", "}", "|"}

\* s matches (:\d+\.?\d*) entirely
IsWeight(s) ==
    /\ Len(s) >= 2
    /\ s[1] = ":"
    /\ LET d == RunLen(s, 1, Digits) IN
       /\ d > 0
       /\ \/ 1 + d = Len(s)
          \/ /\ At(s, 1 + d) = "."
             /\ 2 + d + RunLen(s, 2 + d, Digits) = Len(s)

\* /^\(([^()\[\]{}|]*?)(:\d+\.?\d*)?\)/ : [len, content, weight], len = 0 when
\* there is no match.  The lazy content group takes the shortest prefix whose
\* rest is empty or a whole weight.
ParenMatch(t, p) ==
    LET n == RunLenNot(t, p + 1, Special)
        inner == Substring(t, p + 1, p + 1 + n)
        k == CHOOSE j \in 0..n :
                 /\ (j = n \/ IsWeight(SubSeq(inner, j + 1, n)))
                 /\ \A i \in 0..(j - 1) : ~IsWeight(SubSeq(inner, i + 1, n))
    IN  IF At(t, p) = "(" /\ At(t, p + 1 + n) = ")"
        THEN [len |-> n + 2, content |-> k, weight |-> n - k]
        ELSE [len |-> 0, content |-> 0, weight |-> 0]

----------------------------------------------------------------------------
(* findMatchingBracket *)

bracketPairs(c) == CASE c = "(" -> ")" [] c = "[" -> "]" [] c = "{" -> "}"

Openers == {"(", "[", "{"}

\* the loop of findMatchingBracket without the branch that skips the groups
\* of the other bracket types
RECURSIVE FMBLoopFlat(_, _, _, _, _)
FMBLoopFlat(t, p, depth, openChar, closeChar) ==
    IF ~(p < Len(t) /\ depth > 0) THEN <<p, depth>>
    ELSE LET char == At(t, p) IN
         IF char = closeChar THEN FMBLoopFlat(t, p + 1, depth - 1, openChar, closeChar)
         ELSE IF char = openChar THEN FMBLoopFlat(t, p + 1, depth + 1, openChar, closeChar)
         ELSE FMBLoopFlat(t, p + 1, depth, openChar, closeChar)

RECURSIVE FindMatchingBracket(_, _, _, _), FMBLoop(_, _, _, _, _)

\* the while loop of findMatchingBracket from (p, depth); the result is the
\* pair <<pos, depth>> at loop exit
FMBLoop(t, p, depth, openChar, closeChar) ==
    IF ~(p < Len(t) /\ depth > 0) THEN <<p, depth>>
    ELSE LET char == At(t, p) IN
         IF char = closeChar THEN FMBLoop(t, p + 1, depth - 1, openChar, closeChar)
         ELSE IF char = openChar THEN FMBLoop(t, p + 1, depth + 1, openChar, closeChar)
         ELSE IF char \in Openers
              THEN LET innerEnd == FindMatchingBracket(t, p + 1, char, bracketPairs(char))
                   IN  IF innerEnd # -1
                       THEN FMBLoop(t, innerEnd + 1, depth, openChar, closeChar)
                       ELSE FMBLoop(t, p + 1, depth, openChar, closeChar)
         ELSE FMBLoop(t, p + 1, depth, openChar, closeChar)

FindMatchingBracket(t, startPos, openChar, closeChar) ==
    LET r == FMBLoop(t, startPos, 1, openChar, closeChar)
    IN  IF r[2] = 0 THEN r[1] - 1 ELSE -1

----------------------------------------------------------------------------
(* tokenize: one iteration of the scan loop, as a function of the text and *)
(* of the loop state s = [pos, tokens, bracketStack, inConditional,        *)
(* conditionalDepth, validation]                                           *)

InitScan ==
    [pos |-> 0, tokens |-> <<>>, bracketStack |-> <<>>,
     inConditional |-> FALSE, conditionalDepth |-> 0,
     validation |-> [flagsUsed |-> {}, conditionalsUsed |-> {},
                     unbalancedBrackets |-> <<>>, nestedConditionals |-> <<>>]]

\* TextEnd with the square brackets missing from the character class
TextEndPastSquare(t, p) == p + 1 + RunLenNot(t, p + 1, Special \ {"[", "]"})

\* plain text stops at the characters of /[\[\](){}|]/
TextEnd(t, p) == p + 1 + RunLenNot(t, p + 1, Special)

IsCondTop(s) ==
    /\ Len(s.bracketStack) > 0
    /\ s.bracketStack[Len(s.bracketStack)].type \in {"cond-pos", "cond-neg"}

TopIs(s, ty) ==
    /\ Len(s.bracketStack) > 0
    /\ s.bracketStack[Len(s.bracketStack)].type = ty

Pop(st) == SubSeq(st, 1, Len(st) - 1)

\* the first test of the loop body that succeeds at s.pos
Branch(t, s) ==
    LET p == s.pos IN
    IF StartsWith(t, p, <<"-", "-", "-">>) THEN "bypass"
    ELSE IF FlagMatch(t, p) > 0 THEN "flag"
    ELSE IF CondPosMatch(t, p) > 0 THEN "condPos"
    ELSE IF CondNegMatch(t, p) > 0 THEN "condNeg"
    ELSE IF InvalidNegMatch(t, p) > 0 THEN "invalidNeg"
    ELSE IF At(t, p) = "]" /\ IsCondTop(s) THEN "condClose"
    ELSE IF ParenMatch(t, p).len > 0 THEN "parenMatch"
    ELSE IF At(t, p) = "(" THEN "parenOpen"
    ELSE IF At(t, p) = ")" THEN "parenClose"
    ELSE IF At(t, p) = "{" THEN "curlyOpen"
    ELSE IF At(t, p) = "}" THEN "curlyClose"
    ELSE IF At(t, p) = "|" THEN "pipe"
    ELSE IF At(t, p) = "[" THEN "unbalOpen"
    ELSE IF At(t, p) = "]" THEN "unbalClose"
    ELSE "text"

\* BypassSpan with the simple bypass running through the comma that ends it
BypassSpanThroughComma(t, p) ==
    LET bypassEnd == p + 3 IN
    IF bypassEnd < Len(t) /\ At(t, bypassEnd) \in Openers
    THEN LET openChar == At(t, bypassEnd)
             matchEnd == FindMatchingBracket(t, bypassEnd + 1, openChar,
                                             bracketPairs(openChar))
         IN  IF matchEnd # -1
             THEN [end |-> matchEnd + 1, unbalanced |-> FALSE]
             ELSE [end |-> Len(t), unbalanced |-> TRUE]
    ELSE LET endPos == bypassEnd + RunLenNot(t, bypassEnd, {","})
         IN  [end |-> IF endPos < Len(t) THEN endPos + 1 ELSE endPos,
              unbalanced |-> FALSE]

\* end offset of the span of a `---` marker at p, and whether it is unbalanced
BypassSpan(t, p) ==
    LET bypassEnd == p + 3 IN
    IF bypassEnd < Len(t) /\ At(t, bypassEnd) \in Openers
    THEN LET openChar == At(t, bypassEnd)
             matchEnd == FindMatchingBracket(t, bypassEnd + 1, openChar,
                                             bracketPairs(openChar))
         IN  IF matchEnd # -1
             THEN [end |-> matchEnd + 1, unbalanced |-> FALSE]
             ELSE [end |-> Len(t), unbalanced |-> TRUE]
    ELSE [end |-> bypassEnd + RunLenNot(t, bypassEnd, {","}), unbalanced |-> FALSE]

BypassStep(t, s) ==
    LET b == BypassSpan(t, s.pos) IN
    [s EXCEPT !.tokens = Append(@, [Tok(TAG_BYPASS, Substring(t, s.pos, b.end), s.pos, b.end)
                                      EXCEPT !.unbalanced = b.unbalanced]),
              !.pos = b.end]

FlagStep(t, s) ==
    LET n == FlagMatch(t, s.pos)
        flagId == ParseInt(Substring(t, s.pos + 1, s.pos + n - 1))
    IN  [s EXCEPT !.validation.flagsUsed = @ \cup {flagId},
                  !.tokens = Append(@, [Tok(FLAG_TOKEN, Substring(t, s.pos, s.pos + n), s.pos, s.pos + n)
                                          EXCEPT !.flagId = flagId]),
                  !.pos = s.pos + n]

\* CondOpen that records a nested-conditional warning for every directive
CondOpenWarnsAlways(t, s, n, flagId, ty, stackTy) ==
    [s EXCEPT !.validation.conditionalsUsed = @ \cup {flagId},
              !.validation.nestedConditionals =
                  Append(@, s.pos),
              !.conditionalDepth = @ + 1,
              !.bracketStack = Append(@, [type |-> stackTy, pos |-> s.pos]),
              !.tokens = Append(@, [Tok(ty, Substring(t, s.pos, s.pos + n), s.pos, s.pos + n)
                                      EXCEPT !.flagId = flagId,
                                             !.isNested = s.conditionalDepth + 1 > 1]),
              !.pos = s.pos + n,
              !.inConditional = TRUE]

\* the body shared by the two directive branches
CondOpen(t, s, n, flagId, ty, stackTy) ==
    [s EXCEPT !.validation.conditionalsUsed = @ \cup {flagId},
              !.validation.nestedConditionals =
                  IF s.conditionalDepth > 0 THEN Append(@, s.pos) ELSE @,
              !.conditionalDepth = @ + 1,
              !.bracketStack = Append(@, [type |-> stackTy, pos |-> s.pos]),
              !.tokens = Append(@, [Tok(ty, Substring(t, s.pos, s.pos + n), s.pos, s.pos + n)
                                      EXCEPT !.flagId = flagId,
                                             !.isNested = s.conditionalDepth + 1 > 1]),
              !.pos = s.pos + n,
              !.inConditional = TRUE]

CondPosStep(t, s) ==
    LET n == CondPosMatch(t, s.pos)
        d == RunLen(t, s.pos + 1, Digits)
        flagId == ParseInt(Substring(t, s.pos + 1, s.pos + 1 + d))
    IN  CondOpen(t, s, n, flagId, COND_POS_DIRECTIVE, "cond-pos")

\* CondNegStep without Math.abs: the id keeps the sign of parseInt("-ddd")
CondNegStepSigned(t, s) ==
    LET n == CondNegMatch(t, s.pos)
        d == RunLen(t, s.pos + 2, Digits)
        flagId == 0 - ParseInt(Substring(t, s.pos + 2, s.pos + 2 + d))
    IN  CondOpen(t, s, n, flagId, COND_NEG_DIRECTIVE, "cond-neg")

\* Math.abs(parseInt("-ddd")) is the value of the digits
CondNegStep(t, s) ==
    LET n == CondNegMatch(t, s.pos)
        d == RunLen(t, s.pos + 2, Digits)
        flagId == ParseInt(Substring(t, s.pos + 2, s.pos + 2 + d))
    IN  CondOpen(t, s, n, flagId, COND_NEG_DIRECTIVE, "cond-neg")

\* InvalidNegStep without `pos += invalidNegMatch[0].length`
InvalidNegStepNoAdvance(t, s) ==
    LET n == InvalidNegMatch(t, s.pos) IN
    [s EXCEPT !.tokens = Append(@, Tok(INVALID_TOKEN, Substring(t, s.pos, s.pos + n),
                                       s.pos, s.pos + n))]

\* InvalidNegStep recording the id of [-N] as a referenced flag
InvalidNegStepReferences(t, s) ==
    LET n == InvalidNegMatch(t, s.pos)
        d == RunLen(t, s.pos + 2, Digits)
    IN  [s EXCEPT !.validation.conditionalsUsed =
                      @ \cup {ParseInt(Substring(t, s.pos + 2, s.pos + 2 + d))},
                  !.tokens = Append(@, Tok(INVALID_TOKEN, Substring(t, s.pos, s.pos + n),
                                           s.pos, s.pos + n)),
                  !.pos = s.pos + n]

InvalidNegStep(t, s) ==
    LET n == InvalidNegMatch(t, s.pos) IN
    [s EXCEPT !.tokens = Append(@, Tok(INVALID_TOKEN, Substring(t, s.pos, s.pos + n), s.pos, s.pos + n)),
              !.pos = s.pos + n]

\* CondCloseStep closing only the outermost block: a `]` at depth > 1 is left
\* as an unbalanced bracket
CondCloseStepOuterOnly(t, s) ==
    IF s.conditionalDepth > 1
    THEN [s EXCEPT !.tokens = Append(@, Tok(UNBALANCED, <<"]">>, s.pos, s.pos + 1)),
                   !.pos = s.pos + 1]
    ELSE [s EXCEPT !.bracketStack = Pop(@),
                   !.conditionalDepth = @ - 1,
                   !.tokens = Append(@, Tok(COND_CLOSE, <<"]">>, s.pos, s.pos + 1)),
                   !.pos = s.pos + 1,
                   !.inConditional = FALSE]

\* CondCloseStep that pops the directive without counting the depth down
CondCloseStepKeepsDepth(t, s) ==
    [s EXCEPT !.bracketStack = Pop(@),
              !.tokens = Append(@, Tok(COND_CLOSE, <<"]">>, s.pos, s.pos + 1)),
              !.pos = s.pos + 1]

CondCloseStep(t, s) ==
    [s EXCEPT !.bracketStack = Pop(@),
              !.conditionalDepth = @ - 1,
              !.tokens = Append(@, Tok(COND_CLOSE, <<"]">>, s.pos, s.pos + 1)),
              !.pos = s.pos + 1,
              !.inConditional = IF s.conditionalDepth - 1 = 0 THEN FALSE ELSE @]

\* ParenMatchStep with the weight span placed without the content length
ParenMatchStepWeightAtOpen(t, s) ==
    LET m == ParenMatch(t, s.pos)
        p == s.pos
        inner == Substring(t, p + 1, p + m.len - 1)
        open == <<Tok(PAREN_OPEN, <<"(">>, p, p + 1)>>
        content == IF m.content > 0
                   THEN <<Tok(PAREN_CONTENT, SubSeq(inner, 1, m.content), p + 1,
                              p + 1 + m.content)>>
                   ELSE <<>>
        weight == IF m.weight > 0
                  THEN <<Tok(PAREN_WEIGHT, SubSeq(inner, m.content + 1, m.content + m.weight),
                             p + 1, p + 1 + m.weight)>>
                  ELSE <<>>
        close == <<Tok(PAREN_CLOSE, <<")">>, p + m.len - 1, p + m.len)>>
    IN  [s EXCEPT !.tokens = @ \o open \o content \o weight \o close,
                  !.pos = p + m.len]

ParenMatchStep(t, s) ==
    LET m == ParenMatch(t, s.pos)
        p == s.pos
        inner == Substring(t, p + 1, p + m.len - 1)
        open == <<Tok(PAREN_OPEN, <<"(">>, p, p + 1)>>
        content == IF m.content > 0
                   THEN <<Tok(PAREN_CONTENT, SubSeq(inner, 1, m.content), p + 1,
                              p + 1 + m.content)>>
                   ELSE <<>>
        weight == IF m.weight > 0
                  THEN <<Tok(PAREN_WEIGHT, SubSeq(inner, m.content + 1, m.content + m.weight),
                             p + 1 + m.content, p + 1 + m.content + m.weight)>>
                  ELSE <<>>
        close == <<Tok(PAREN_CLOSE, <<")">>, p + m.len - 1, p + m.len)>>
    IN  [s EXCEPT !.tokens = @ \o open \o content \o weight \o close,
                  !.pos = p + m.len]

\* an opening bracket that is pushed on the bracket stack
OpenStep(s, ty, v, stackTy) ==
    [s EXCEPT !.bracketStack = Append(@, [type |-> stackTy, pos |-> s.pos]),
              !.tokens = Append(@, Tok(ty, v, s.pos, s.pos + 1)),
              !.pos = s.pos + 1]

\* CloseStep that pairs the closing bracket with whatever is on top of the stack
CloseStepAnyTop(s, ty, v, stackTy) ==
    IF Len(s.bracketStack) > 0
    THEN [s EXCEPT !.bracketStack = Pop(@),
                   !.tokens = Append(@, Tok(ty, v, s.pos, s.pos + 1)),
                   !.pos = s.pos + 1]
    ELSE [s EXCEPT !.tokens = Append(@, Tok(UNBALANCED, v, s.pos, s.pos + 1)),
                   !.pos = s.pos + 1]

\* a closing bracket: paired with the top of the stack, or unbalanced
CloseStep(s, ty, v, stackTy) ==
    IF TopIs(s, stackTy)
    THEN [s EXCEPT !.bracketStack = Pop(@),
                   !.tokens = Append(@, Tok(ty, v, s.pos, s.pos + 1)),
                   !.pos = s.pos + 1]
    ELSE [s EXCEPT !.tokens = Append(@, Tok(UNBALANCED, v, s.pos, s.pos + 1)),
                   !.pos = s.pos + 1]

ParenOpenStep(t, s) == OpenStep(s, PAREN_OPEN, <<"(">>, "paren")
ParenCloseStep(t, s) == CloseStep(s, PAREN_CLOSE, <<")">>, "paren")
CurlyOpenStep(t, s) == OpenStep(s, CURLY_OPEN, <<"{">>, "curly")
CurlyCloseStep(t, s) == CloseStep(s, CURLY_CLOSE, <<"}">>, "curly")

\* a one-character token that leaves the stack alone
SingleStep(s, ty, v) ==
    [s EXCEPT !.tokens = Append(@, Tok(ty, v, s.pos, s.pos + 1)),
              !.pos = s.pos + 1]

PipeStep(t, s) == SingleStep(s, CURLY_PIPE, <<"|">>)
UnbalOpenStep(t, s) == SingleStep(s, UNBALANCED, <<"[">>)
UnbalCloseStep(t, s) == SingleStep(s, UNBALANCED, <<"]">>)

\* TextStep with a leading space left out of the token's value
TextStepSkipsSpace(t, s) ==
    LET textEnd == TextEnd(t, s.pos)
        from == IF At(t, s.pos) = " " THEN s.pos + 1 ELSE s.pos
    IN  [s EXCEPT !.tokens = Append(@, Tok(TEXT, Substring(t, from, textEnd), s.pos, textEnd)),
                  !.pos = textEnd]

TextStep(t, s) ==
    LET textEnd == TextEnd(t, s.pos) IN
    [s EXCEPT !.tokens = Append(@, Tok(TEXT, Substring(t, s.pos, textEnd), s.pos, textEnd)),
              !.pos = textEnd]

\* the loop body
TokenizeStep(t, s) ==
    LET b == Branch(t, s) IN
    CASE b = "bypass" -> BypassStep(t, s)
      [] b = "flag" -> FlagStep(t, s)
      [] b = "condPos" -> CondPosStep(t, s)
      [] b = "condNeg" -> CondNegStep(t, s)
      [] b = "invalidNeg" -> InvalidNegStep(t, s)
      [] b = "condClose" -> CondCloseStep(t, s)
      [] b = "parenMatch" -> ParenMatchStep(t, s)
      [] b = "parenOpen" -> ParenOpenStep(t, s)
      [] b = "parenClose" -> ParenCloseStep(t, s)
      [] b = "curlyOpen" -> CurlyOpenStep(t, s)
      [] b = "curlyClose" -> CurlyCloseStep(t, s)
      [] b = "pipe" -> PipeStep(t, s)
      [] b = "unbalOpen" -> UnbalOpenStep(t, s)
      [] b = "unbalClose" -> UnbalCloseStep(t, s)
      [] b = "text" -> TextStep(t, s)

\* after the loop: every entry left on the stack is an unbalanced bracket
RECURSIVE Positions(_)
Positions(st) ==
    IF Len(st) = 0 THEN <<>> ELSE <<st[1].pos>> \o Positions(Tail(st))

\* MarkUnclosed reporting only the innermost entry left on the stack
MarkUnclosedTopOnly(s) ==
    [s EXCEPT !.validation.unbalancedBrackets =
                  IF Len(s.bracketStack) = 0 THEN @
                  ELSE Append(@, s.bracketStack[Len(s.bracketStack)].pos)]

MarkUnclosed(s) ==
    [s EXCEPT !.validation.unbalancedBrackets = @ \o Positions(s.bracketStack)]

\* the locals at the entry of a call that keeps the validation object of the
\* call before it
TokenizeEntryKeepsValidation(s) == [InitScan EXCEPT !.validation = s.validation]

\* the locals at the entry of a call of tokenize, s being what the call before
\* it left behind: every local is declared and initialised inside the function
TokenizeEntry(s) == InitScan

\* tokenize(text) as a function: { tokens, validation }
RECURSIVE ScanFrom(_, _)
ScanFrom(t, s) ==
    IF s.pos < Len(t) THEN ScanFrom(t, TokenizeStep(t, s)) ELSE MarkUnclosed(s)

tokenize(t) == ScanFrom(t, InitScan)

----------------------------------------------------------------------------
(* The second tokenizer of the source file: no `---` bypass, the invalid   *)
(* `[-N]` test ahead of the directive tests, and a weight-group pattern    *)
(* whose content may hold `{`, `}` and `|`                                 *)

\* the characters the second version's weight-group content excludes
Special2 == {"[", "]", "(", ")"}

ParenMatch2(t, p) ==
    LET n == RunLenNot(t, p + 1, Special2)
        inner == Substring(t, p + 1, p + 1 + n)
        k == CHOOSE j \in 0..n :
                 /\ (j = n \/ IsWeight(SubSeq(inner, j + 1, n)))
                 /\ \A i \in 0..(j - 1) : ~IsWeight(SubSeq(inner, i + 1, n))
    IN  IF At(t, p) = "(" /\ At(t, p + 1 + n) = ")"
        THEN [len |-> n + 2, content |-> k, weight |-> n - k]
        ELSE [len |-> 0, content |-> 0, weight |-> 0]

ParenMatchStep2(t, s) ==
    LET m == ParenMatch2(t, s.pos)
        p == s.pos
        inner == Substring(t, p + 1, p + m.len - 1)
        open == <<Tok(PAREN_OPEN, <<"(">>, p, p + 1)>>
        content == IF m.content > 0
                   THEN <<Tok(PAREN_CONTENT, SubSeq(inner, 1, m.content), p + 1,
                              p + 1 + m.content)>>
                   ELSE <<>>
        weight == IF m.weight > 0
                  THEN <<Tok(PAREN_WEIGHT, SubSeq(inner, m.content + 1, m.content + m.weight),
                             p + 1 + m.content, p + 1 + m.content + m.weight)>>
                  ELSE <<>>
        close == <<Tok(PAREN_CLOSE, <<")">>, p + m.len - 1, p + m.len)>>
    IN  [s EXCEPT !.tokens = @ \o open \o content \o weight \o close,
                  !.pos = p + m.len]

\* Branch2 without the test for a negative directive
Branch2NoCondNeg(t, s) ==
    LET p == s.pos IN
    IF FlagMatch(t, p) > 0 THEN "flag"
    ELSE IF InvalidNegMatch(t, p) > 0 THEN "invalidNeg"
    ELSE IF CondPosMatch(t, p) > 0 THEN "condPos"
    ELSE IF At(t, p) = "]" /\ IsCondTop(s) THEN "condClose"
    ELSE IF ParenMatch2(t, p).len > 0 THEN "parenMatch"
    ELSE IF At(t, p) = "(" THEN "parenOpen"
    ELSE IF At(t, p) = ")" THEN "parenClose"
    ELSE IF At(t, p) = "{" THEN "curlyOpen"
    ELSE IF At(t, p) = "}" THEN "curlyClose"
    ELSE IF At(t, p) = "|" THEN "pipe"
    ELSE IF At(t, p) = "[" THEN "unbalOpen"
    ELSE IF At(t, p) = "]" THEN "unbalClose"
    ELSE "text"

\* the first test of the second version's loop body that succeeds at s.pos
Branch2(t, s) ==
    LET p == s.pos IN
    IF FlagMatch(t, p) > 0 THEN "flag"
    ELSE IF InvalidNegMatch(t, p) > 0 THEN "invalidNeg"
    ELSE IF CondPosMatch(t, p) > 0 THEN "condPos"
    ELSE IF CondNegMatch(t, p) > 0 THEN "condNeg"
    ELSE IF At(t, p) = "]" /\ IsCondTop(s) THEN "condClose"
    ELSE IF ParenMatch2(t, p).len > 0 THEN "parenMatch"
    ELSE IF At(t, p) = "(" THEN "parenOpen"
    ELSE IF At(t, p) = ")" THEN "parenClose"
    ELSE IF At(t, p) = "{" THEN "curlyOpen"
    ELSE IF At(t, p) = "}" THEN "curlyClose"
    ELSE IF At(t, p) = "|" THEN "pipe"
    ELSE IF At(t, p) = "[" THEN "unbalOpen"
    ELSE IF At(t, p) = "]" THEN "unbalClose"
    ELSE "text"

TokenizeStep2(t, s) ==
    LET b == Branch2(t, s) IN
    CASE b = "flag" -> FlagStep(t, s)
      [] b = "invalidNeg" -> InvalidNegStep(t, s)
      [] b = "condPos" -> CondPosStep(t, s)
      [] b = "condNeg" -> CondNegStep(t, s)
      [] b = "condClose" -> CondCloseStep(t, s)
      [] b = "parenMatch" -> ParenMatchStep2(t, s)
      [] b = "parenOpen" -> ParenOpenStep(t, s)
      [] b = "parenClose" -> ParenCloseStep(t, s)
      [] b = "curlyOpen" -> CurlyOpenStep(t, s)
      [] b = "curlyClose" -> CurlyCloseStep(t, s)
      [] b = "pipe" -> PipeStep(t, s)
      [] b = "unbalOpen" -> UnbalOpenStep(t, s)
      [] b = "unbalClose" -> UnbalCloseStep(t, s)
      [] b = "text" -> TextStep(t, s)

RECURSIVE ScanFrom2(_, _)
ScanFrom2(t, s) ==
    IF s.pos < Len(t) THEN ScanFrom2(t, TokenizeStep2(t, s)) ELSE MarkUnclosed(s)

\* the second version's tokenize(text)
tokenize2(t) == ScanFrom2(t, InitScan)

----------------------------------------------------------------------------
(* tokensToHTML: the backdrop content is a sequence of pieces, one per      *)
(* token: bare escaped text for a text token, a span with its class list    *)
(* for any other token                                                      *)

\* escapeHTML of one character
Entity(c) ==
    CASE c = "&" -> <<"&", "a", "m", "p", ";">>
      [] c = "<" -> <<"&", "l", "t", ";">>
      [] c = ">" -> <<"&", "g", "t", ";">>
      [] c = "\"" -> <<"&", "q", "u", "o", "t", ";">>
      [] OTHER -> <<c>>

RECURSIVE escapeHTML(_)
escapeHTML(str) ==
    IF Len(str) = 0 THEN <<>> ELSE Entity(str[1]) \o escapeHTML(Tail(str))

\* orphanFlags without the look-up in conditionalsUsed
orphanFlagsAll(v) == v.flagsUsed

\* flags with no matching conditional
orphanFlags(v) == {flagId \in v.flagsUsed : flagId \notin v.conditionalsUsed}

\* conditionals referencing unused flags
unusedConds(v) == {flagId \in v.conditionalsUsed : flagId \notin v.flagsUsed}

\* [className, ...extraClasses] of a token that is not plain text
TokenClasses(token, v) ==
    <<"bedrot-" \o token.type>>
    \o (IF token.type = FLAG_TOKEN /\ token.flagId \in orphanFlags(v)
        THEN <<"bedrot-orphan-flag">> ELSE <<>>)
    \o (IF token.type \in {COND_POS_DIRECTIVE, COND_NEG_DIRECTIVE}
           /\ token.flagId \in unusedConds(v)
        THEN <<"bedrot-unused-cond">> ELSE <<>>)
    \o (IF token.isNested THEN <<"bedrot-nested-warning">> ELSE <<>>)

TokenHTML(token, v) ==
    IF token.type = TEXT
    THEN [span |-> FALSE, classes |-> <<>>, text |-> escapeHTML(token.value)]
    ELSE [span |-> TRUE, classes |-> TokenClasses(token, v),
          text |-> escapeHTML(token.value)]

tokensToHTML(toks, v) == [i \in 1..Len(toks) |-> TokenHTML(toks[i], v)]

----------------------------------------------------------------------------
(* The resolver: scan, collect the flags, walk the spans with a stack of   *)
(* open conditional nodes, normalize                                       *)

\* a block is kept iff its flag is activated (positive) or is not (negative)
KeepNode(node, F) ==
    IF node.negated THEN node.flagId \notin F ELSE node.flagId \in F

\* append s to the innermost open node's buffer, or to the output
Emit(r, s) ==
    IF Len(r.stack) > 0
    THEN [r EXCEPT !.stack[Len(r.stack)].buf = @ \o s]
    ELSE [r EXCEPT !.out = @ \o s]

\* pop the innermost node and append its buffer to the new innermost scope
\* when it is kept
CloseNode(r, F) ==
    IF Len(r.stack) = 0 THEN r
    ELSE LET node == r.stack[Len(r.stack)]
             popped == [r EXCEPT !.stack = Pop(@)]
         IN  IF KeepNode(node, F) THEN Emit(popped, node.buf) ELSE popped

\* one span of the walk
ResolveSpan(r, tk, F) ==
    IF tk.type \in {FLAG_TOKEN, INVALID_TOKEN, TAG_BYPASS} THEN r
    ELSE IF tk.type \in {COND_POS_DIRECTIVE, COND_NEG_DIRECTIVE}
    THEN [r EXCEPT !.stack = Append(@, [flagId |-> tk.flagId,
                                        negated |-> tk.type = COND_NEG_DIRECTIVE,
                                        buf |-> <<>>])]
    ELSE IF tk.type = COND_CLOSE THEN CloseNode(r, F)
    ELSE Emit(r, tk.value)

\* at end of input the nodes still open are dropped with their content
CloseAllDrops(r, F) == [r EXCEPT !.stack = <<>>]

\* at end of input the nodes still open are closed, innermost first
RECURSIVE CloseAll(_, _)
CloseAll(r, F) == IF Len(r.stack) = 0 THEN r ELSE CloseAll(CloseNode(r, F), F)

RECURSIVE Walk(_, _, _, _)
Walk(toks, i, r, F) ==
    IF i > Len(toks) THEN CloseAll(r, F)
    ELSE Walk(toks, i + 1, ResolveSpan(r, toks[i], F), F)

\* the text after substitution
ResolveSpans(toks, F) == Walk(toks, 1, [stack |-> <<>>, out |-> <<>>], F).out

\* rule 1 taken over every whitespace character: a run of two or more spaces,
\* tabs and newlines becomes one space
RECURSIVE CollapseWhitespace(_)
CollapseWhitespace(s) ==
    IF Len(s) < 2 THEN s
    ELSE IF s[1] \in Whitespace /\ s[2] \in Whitespace
    THEN CollapseWhitespace(<<" ">> \o Tail(Tail(s)))
    ELSE <<s[1]>> \o CollapseWhitespace(Tail(s))

\* rule 1: a run of two or more spaces becomes one space
RECURSIVE CollapseSpaces(_)
CollapseSpaces(s) ==
    IF Len(s) < 2 THEN s
    ELSE IF s[1] = " " /\ s[2] = " " THEN CollapseSpaces(Tail(s))
    ELSE <<s[1]>> \o CollapseSpaces(Tail(s))

\* rule 2: a space immediately before a comma is removed
RECURSIVE RemoveSpaceBeforeComma(_)
RemoveSpaceBeforeComma(s) ==
    IF Len(s) < 2 THEN s
    ELSE IF s[1] = " " /\ s[2] = "," THEN RemoveSpaceBeforeComma(Tail(s))
    ELSE <<s[1]>> \o RemoveSpaceBeforeComma(Tail(s))

\* rule 3: leading and trailing whitespace is trimmed
Trim(s) ==
    LET lead == RunLen(s, 0, Whitespace)
        rest == SubSeq(s, lead + 1, Len(s))
        last == IF \E i \in 1..Len(rest) : rest[i] \notin Whitespace
                THEN CHOOSE i \in 1..Len(rest) :
                         /\ rest[i] \notin Whitespace
                         /\ \A j \in (i + 1)..Len(rest) : rest[j] \in Whitespace
                ELSE 0
    IN  SubSeq(rest, 1, last)

Normalize(s) == Trim(RemoveSpaceBeforeComma(CollapseSpaces(s)))

\* resolve(text) as a function
resolve(t) ==
    LET sc == tokenize(t) IN
    Normalize(ResolveSpans(sc.tokens, sc.validation.flagsUsed))

----------------------------------------------------------------------------
(* Inputs *)

Pieces ==
    {<<"[">>,
     <<"]">>,
     <<"(">>,
     <<")">>,
     <<",">>,
     <<" ">>,
     <<"a">>,
     <<"1">>,
     <<":">>,
     <<"-">>,
     <<"[", "1", "]">>,
     <<"[", "1", ":", " ">>,
     <<"[", "-", "1", ":", " ">>,
     <<"[", "-", "1", "]">>,
     <<"-", "-", "-">>}

\* the documented prompts, with words shortened to one letter
TogglePrompt == <<"p", " ", "[", "1", "]", ",", " ", "[", "1", ":", " ", "g", "]", ",", " ", "[", "-", "1", ":", " ", "w", "]">>
TogglePromptOff == <<"p", " ", ",", " ", "[", "1", ":", " ", "g", "]", ",", " ", "[", "-", "1", ":", " ", "w", "]">>
NestedBlock == <<"[", "1", ":", " ", "h", " ", "[", "2", ":", " ", "w", "]", ",", " ", "s", "]">>
PairOne == <<"[", "-", "1", ":", " ", "a", "]", "[", "1", ":", " ", "b", "]">>
PairTwo == <<"[", "-", "2", ":", " ", "a", "]", "[", "2", ":", " ", "b", "]">>
FlagOne == <<"[", "1", "]">>
FlagTwo == <<"[", "2", "]">>
FlagInBrackets == <<"[", "1", "[", "2", "]", "]">>
DirectiveInBrackets == <<"[", "[", "1", "]", "1", ":", " ", "a", "]">>
ChoiceGroup == <<"{", "a", " ", "[", "1", "]", "|", "b", "}">>
MidTextBypass == <<"a", ",", " ", "-", "-", "-", "b", ",", " ", "[", "1", ":", " ", "c", "]">>
WeightedParen == <<"(", "a", ":", "1", ".", "2", ")">>
BypassChoice == <<"-", "-", "-", "{", "a", "}", "b">>
BypassNested == <<"a", "]", "-", "-", "-", "{", "b", "(", "}", ")", "{", "c", "}", "}", "d">>
StrayBrace == <<"{", "(", "}", ")", "}">>
DocPrompt == <<"t", " ", "[", "1", "]", ",", " ", "[", "1", ":", " ", "i", ",", " ", "g", "]", ",", " ", "B">>
EscapedParens == <<"s", " ", "\\", "(", "h", " ", "w", "\\", ")">>
EscapedOpen == <<"s", " ", "\\", "(", " ", "h">>
OrphanFive == <<"a", " ", "[", "5", "]">>
\* a flag and a directive written with the id 0
ZeroFlag == <<"[", "0", "]", " ", "[", "0", ":", " ", "a", "]">>

Scenarios ==
    LET blocks == {NestedBlock, PairOne, PairTwo, DirectiveInBrackets}
        flags == {<<>>, FlagOne, FlagTwo, FlagOne \o FlagTwo}
    IN  {f \o b : f \in flags, b \in blocks}
        \cup {TogglePrompt, TogglePromptOff, FlagInBrackets, ChoiceGroup,
              MidTextBypass, DocPrompt, WeightedParen,
              BypassChoice, StrayBrace, EscapedParens, EscapedOpen, OrphanFive, BypassNested, ZeroFlag}

RECURSIVE PieceTexts(_)
PieceTexts(n) ==
    IF n = 0 THEN {<<>>}
    ELSE LET prev == PieceTexts(n - 1)
         IN  prev \cup {t \o q : t \in prev, q \in Pieces}

\* `---(` and `---[` followed by every string of at most n round and square
\* brackets
RECURSIVE BracketBodies(_)
BracketBodies(n) ==
    IF n = 0 THEN {<<>>}
    ELSE LET prev == BracketBodies(n - 1)
         IN  prev \cup {b \o <<c>> : b \in prev, c \in {"(", ")", "[", "]"}}

BypassTexts ==
    {<<"-", "-", "-", o>> \o b : o \in {"(", "["}, b \in BracketBodies(MaxBypassBody)}

Inputs == PieceTexts(MaxPieces) \cup Scenarios \cup BypassTexts

----------------------------------------------------------------------------
(* The state machine: resolve(text) scans the text one loop iteration at   *)
(* a time, then walks the spans and normalizes                             *)

cur ==
    [pos |-> pos, tokens |-> tokens, bracketStack |-> bracketStack,
     inConditional |-> inConditional, conditionalDepth |-> conditionalDepth,
     validation |-> validation]

SetScan(s) ==
    /\ pos' = s.pos
    /\ tokens' = s.tokens
    /\ bracketStack' = s.bracketStack
    /\ inConditional' = s.inConditional
    /\ conditionalDepth' = s.conditionalDepth
    /\ validation' = s.validation

\* the elements of a sequence
Range(q) == {q[k] : k \in 1..Len(q)}

\* node.id of the text-encode node, the key of the highlighters map
NodeId == "node"

\* the load-image node at rest: the default group, no image, no request
DEFAULT_GROUP == "Unsorted"

NoImages == "[no images]"

\* the text input of the preview node as a widget
TextWidget == [name |-> <<"text", 0>>, value |-> "", readOnly |-> FALSE]

\* the preview node before any execution
PreviewIdle ==
    previewNode = [converted |-> FALSE, widgets |-> <<TextWidget>>, frame |-> FALSE,
                   configured |-> FALSE]

ImgIdle ==
    /\ groupWidget = [value |-> DEFAULT_GROUP, options |-> <<DEFAULT_GROUP, "cats">>]
    /\ imageWidget = [value |-> NoImages, options |-> <<NoImages>>]
    /\ fetches = <<>>
    /\ imgs = <<>>
    /\ loads = {}

Init ==
    /\ text \in Inputs
    /\ pc = "scan"
    /\ pos = InitScan.pos
    /\ tokens = InitScan.tokens
    /\ bracketStack = InitScan.bracketStack
    /\ inConditional = InitScan.inConditional
    /\ conditionalDepth = InitScan.conditionalDepth
    /\ validation = InitScan.validation
    /\ rawOutput = <<>>
    /\ output = <<>>
    /\ textarea = [value |-> text, scrollTop |-> 0, highlighted |-> TRUE]
    /\ backdrop = [innerHTML |-> <<>>, display |-> "block", scrollTop |-> 0,
                   attached |-> TRUE]
    /\ enabled = TRUE
    /\ lastText = <<text>>
    /\ highlightTimeout = "stale"
    /\ timers = [debounce |-> 0, enter |-> 0, frame |-> FALSE]
    /\ observing = TRUE
    /\ burst = 0
    /\ highlighters = {NodeId}
    /\ txtNode = [toggle |-> TRUE, setup |-> FALSE, restore |-> FALSE, removed |-> FALSE]
    /\ ImgIdle
    /\ PreviewIdle

\* the loop is at an iteration whose first succeeding test is b
AtBranch(b) == pc = "scan" /\ pos < Len(text) /\ Branch(text, cur) = b

ScanBypass ==
    /\ AtBranch("bypass")
    /\ SetScan(BypassStep(text, cur))
    /\ UNCHANGED <<text, pc, resVars, hlVars, extVars, imgVars>>

ScanFlag ==
    /\ AtBranch("flag")
    /\ SetScan(FlagStep(text, cur))
    /\ UNCHANGED <<text, pc, resVars, hlVars, extVars, imgVars>>

ScanCondPos ==
    /\ AtBranch("condPos")
    /\ SetScan(CondPosStep(text, cur))
    /\ UNCHANGED <<text, pc, resVars, hlVars, extVars, imgVars>>

ScanCondNeg ==
    /\ AtBranch("condNeg")
    /\ SetScan(CondNegStep(text, cur))
    /\ UNCHANGED <<text, pc, resVars, hlVars, extVars, imgVars>>

ScanInvalidNeg ==
    /\ AtBranch("invalidNeg")
    /\ SetScan(InvalidNegStep(text, cur))
    /\ UNCHANGED <<text, pc, resVars, hlVars, extVars, imgVars>>

ScanCondClose ==
    /\ AtBranch("condClose")
    /\ SetScan(CondCloseStep(text, cur))
    /\ UNCHANGED <<text, pc, resVars, hlVars, extVars, imgVars>>

ScanParenMatch ==
    /\ AtBranch("parenMatch")
    /\ SetScan(ParenMatchStep(text, cur))
    /\ UNCHANGED <<text, pc, resVars, hlVars, extVars, imgVars>>

ScanParenOpen ==
    /\ AtBranch("parenOpen")
    /\ SetScan(ParenOpenStep(text, cur))
    /\ UNCHANGED <<text, pc, resVars, hlVars, extVars, imgVars>>

ScanParenClose ==
    /\ AtBranch("parenClose")
    /\ SetScan(ParenCloseStep(text, cur))
    /\ UNCHANGED <<text, pc, resVars, hlVars, extVars, imgVars>>

ScanCurlyOpen ==
    /\ AtBranch("curlyOpen")
    /\ SetScan(CurlyOpenStep(text, cur))
    /\ UNCHANGED <<text, pc, resVars, hlVars, extVars, imgVars>>

ScanCurlyClose ==
    /\ AtBranch("curlyClose")
    /\ SetScan(CurlyCloseStep(text, cur))
    /\ UNCHANGED <<text, pc, resVars, hlVars, extVars, imgVars>>

ScanPipe ==
    /\ AtBranch("pipe")
    /\ SetScan(PipeStep(text, cur))
    /\ UNCHANGED <<text, pc, resVars, hlVars, extVars, imgVars>>

ScanUnbalOpen ==
    /\ AtBranch("unbalOpen")
    /\ SetScan(UnbalOpenStep(text, cur))
    /\ UNCHANGED <<text, pc, resVars, hlVars, extVars, imgVars>>

ScanUnbalClose ==
    /\ AtBranch("unbalClose")
    /\ SetScan(UnbalCloseStep(text, cur))
    /\ UNCHANGED <<text, pc, resVars, hlVars, extVars, imgVars>>

ScanText ==
    /\ AtBranch("text")
    /\ SetScan(TextStep(text, cur))
    /\ UNCHANGED <<text, pc, resVars, hlVars, extVars, imgVars>>

\* the loop is over: the unclosed brackets are recorded and tokenize returns
ScanFinish ==
    /\ pc = "scan"
    /\ ~(pos < Len(text))
    /\ SetScan(MarkUnclosed(cur))
    /\ pc' = "tokenized"
    /\ UNCHANGED <<text, resVars, hlVars, extVars, imgVars>>

\* the highlighter path: _doHighlight writes the rendering of the spans just
\* scanned into the backdrop, syncs the scroll position and asks for a frame
Render ==
    /\ pc = "tokenized"
    /\ backdrop' = [backdrop EXCEPT !.innerHTML = tokensToHTML(tokens, validation),
                                    !.scrollTop = textarea.scrollTop]
    /\ timers' = [timers EXCEPT !.frame = TRUE]
    /\ pc' = "rendered"
    /\ UNCHANGED <<text, scanVars, resVars, textarea, enabled, lastText,
                   highlightTimeout, observing, burst, extVars, imgVars>>

\* the resolver path over the spans just scanned
Resolve ==
    /\ pc = "tokenized"
    /\ rawOutput' = ResolveSpans(tokens, validation.flagsUsed)
    /\ output' = Normalize(rawOutput')
    /\ pc' = "done"
    /\ UNCHANGED <<text, scanVars, hlVars, extVars, imgVars>>

Next ==
    \/ ScanBypass
    \/ ScanFlag
    \/ ScanCondPos
    \/ ScanCondNeg
    \/ ScanInvalidNeg
    \/ ScanCondClose
    \/ ScanParenMatch
    \/ ScanParenOpen
    \/ ScanParenClose
    \/ ScanCurlyOpen
    \/ ScanCurlyClose
    \/ ScanPipe
    \/ ScanUnbalOpen
    \/ ScanUnbalClose
    \/ ScanText
    \/ ScanFinish
    \/ Render
    \/ Resolve

Spec == Init /\ [][Next]_vars

\* the scan loop and the resolver run to completion
FairSpec == Spec /\ WF_vars(Next)

----------------------------------------------------------------------------
(* The highlighter of one text-encode node, from onNodeCreated on: the     *)
(* extension's deferred set-up, the event handlers and the timer           *)
(* callbacks, each run to completion.  text and the scan variables hold    *)
(* the argument and the locals of the most recent call of tokenize, by     *)
(* this highlighter or by the highlighter of another node.                 *)
(* pc is "created" until the highlighter is constructed, then "live",      *)
(* and "destroyed" once destroy() has run.                                 *)

\* Enter-key timers waiting at once
MaxEnterTimers == 1

\* highlight() calls are counted up to this number
MaxBurst == 2

\* the textarea values the user switches between
HLTexts ==
    {<<>>,
     FlagOne \o PairOne,
     <<"(", "a">>,
     <<"a", "<", "b", "\n", "[", "2", ":", " ", "c", "]">>}

ScrollPositions == {0, 1}

\* the listeners of bindEvents are on the textarea
Bound == pc \in {"live", "destroyed"}

\* classList.add / classList.remove of "bedrot-highlighted-textarea" with the
\* textarea's value reset on the way
ClassListSetResetsValue(ta, on) == [ta EXCEPT !.highlighted = on, !.value = <<>>]

\* classList.add / classList.remove of "bedrot-highlighted-textarea"
ClassListSet(ta, on) == [ta EXCEPT !.highlighted = on]

\* syncScroll
SyncScroll(bd, ta) == [bd EXCEPT !.scrollTop = ta.scrollTop]

\* highlight() that sets a new timer without clearing the pending one
highlightKeepsTimer(h) ==
    IF ~h.enabled THEN h
    ELSE [h EXCEPT !.highlightTimeout = "live",
                   !.debounce = @ + 1,
                   !.burst = IF @ < MaxBurst THEN @ + 1 ELSE @]

\* highlight() on h = [enabled, highlightTimeout, debounce, burst]: nothing
\* when disabled, else the pending debounce timer is cleared and a new one set
highlight(h) ==
    IF ~h.enabled THEN h
    ELSE [h EXCEPT !.highlightTimeout = "live",
                   !.debounce = (IF h.highlightTimeout = "live" THEN @ - 1 ELSE @) + 1,
                   !.burst = IF @ < MaxBurst THEN @ + 1 ELSE @]

\* highlight() of the highlighter, given its enabled flag and the timers tm
Highlight(en, tm) ==
    LET h == highlight([enabled |-> en, highlightTimeout |-> highlightTimeout,
                        debounce |-> tm.debounce, burst |-> burst])
    IN  /\ highlightTimeout' = h.highlightTimeout
        /\ timers' = [tm EXCEPT !.debounce = h.debounce]
        /\ burst' = h.burst

\* _doHighlight() that renders whether or not the text has changed
DoHighlightAlways(ta, tm) ==
    IF ~enabled
    THEN /\ timers' = tm
         /\ UNCHANGED <<text, scanVars, lastText, backdrop>>
    ELSE LET r == ScanFrom(ta.value, TokenizeEntry(cur)) IN
         /\ lastText' = <<ta.value>>
         /\ text' = ta.value
         /\ SetScan(r)
         /\ backdrop' = SyncScroll([backdrop EXCEPT !.innerHTML =
                                       tokensToHTML(r.tokens, r.validation)], ta)
         /\ timers' = [tm EXCEPT !.frame = TRUE]

\* _doHighlight() without the test of the enabled flag
DoHighlightIgnoresEnabled(ta, tm) ==
    IF <<ta.value>> = lastText
    THEN /\ timers' = tm
         /\ UNCHANGED <<text, scanVars, lastText, backdrop>>
    ELSE LET r == ScanFrom(ta.value, TokenizeEntry(cur)) IN
         /\ lastText' = <<ta.value>>
         /\ text' = ta.value
         /\ SetScan(r)
         /\ backdrop' = SyncScroll([backdrop EXCEPT !.innerHTML =
                                       tokensToHTML(r.tokens, r.validation)], ta)
         /\ timers' = [tm EXCEPT !.frame = TRUE]

\* _doHighlight(), given the textarea ta and the timers tm
DoHighlight(ta, tm) ==
    IF ~enabled \/ <<ta.value>> = lastText
    THEN /\ timers' = tm
         /\ UNCHANGED <<text, scanVars, lastText, backdrop>>
    ELSE LET r == ScanFrom(ta.value, TokenizeEntry(cur)) IN
         /\ lastText' = <<ta.value>>
         /\ text' = ta.value
         /\ SetScan(r)
         /\ backdrop' = SyncScroll([backdrop EXCEPT !.innerHTML =
                                       tokensToHTML(r.tokens, r.validation)], ta)
         /\ timers' = [tm EXCEPT !.frame = TRUE]

\* onNodeCreated has run: the toggle widget is there and the set-up timer is
\* pending; a node loaded from a saved graph has its saved toggle value and a
\* loadedGraphNode timer pending as well
HLInit ==
    /\ text = <<>>
    /\ pc = "created"
    /\ pos = InitScan.pos
    /\ tokens = InitScan.tokens
    /\ bracketStack = InitScan.bracketStack
    /\ inConditional = InitScan.inConditional
    /\ conditionalDepth = InitScan.conditionalDepth
    /\ validation = InitScan.validation
    /\ rawOutput = <<>>
    /\ output = <<>>
    /\ textarea \in {[value |-> t, scrollTop |-> 0, highlighted |-> FALSE] : t \in HLTexts}
    /\ backdrop = [innerHTML |-> <<>>, display |-> "none", scrollTop |-> 0,
                   attached |-> FALSE]
    /\ enabled = FALSE
    /\ lastText = <<>>
    /\ highlightTimeout = "null"
    /\ timers = [debounce |-> 0, enter |-> 0, frame |-> FALSE]
    /\ observing = FALSE
    /\ burst = 0
    /\ highlighters = {}
    /\ txtNode \in {[toggle |-> TRUE, setup |-> TRUE, restore |-> FALSE, removed |-> FALSE]}
                \cup {[toggle |-> b, setup |-> TRUE, restore |-> TRUE, removed |-> FALSE] :
                          b \in BOOLEAN}
    /\ ImgIdle
    /\ PreviewIdle

\* the 100 ms timer of onNodeCreated fires: the constructor (set-up of the
\* DOM, listeners, first highlight()), the entry in the highlighters map and
\* setEnabled(toggleWidget.value).  Whether the textarea of a node removed in
\* the meantime still has a parent element is up to the host application:
\* without one the constructor throws in setupDOM
DeferredSetup ==
    /\ txtNode.setup
    /\ txtNode' = [txtNode EXCEPT !.setup = FALSE]
    /\ \E parent \in (IF txtNode.removed THEN BOOLEAN ELSE {TRUE}) :
           IF parent
           THEN LET h1 == highlight([enabled |-> TRUE, highlightTimeout |-> "null",
                                     debounce |-> timers.debounce, burst |-> 0])
                    h2 == highlight([h1 EXCEPT !.enabled = txtNode.toggle])
                IN  /\ pc' = "live"
                    /\ highlighters' = highlighters \cup {NodeId}
                    /\ enabled' = txtNode.toggle
                    /\ lastText' = <<>>
                    /\ textarea' = ClassListSet(textarea, txtNode.toggle)
                    /\ backdrop' = [innerHTML |-> <<>>,
                                    display |-> IF txtNode.toggle THEN "block" ELSE "none",
                                    scrollTop |-> 0, attached |-> TRUE]
                    /\ observing' = TRUE
                    /\ highlightTimeout' = h2.highlightTimeout
                    /\ timers' = [timers EXCEPT !.debounce = h2.debounce]
                    /\ burst' = h2.burst
           ELSE UNCHANGED <<pc, hlVars, highlighters>>
    /\ UNCHANGED <<text, scanVars, resVars, imgVars, previewNode>>

\* the user edits the text: the value changes and the input listener runs
Input ==
    /\ \E t \in HLTexts \ {textarea.value} : textarea' = [textarea EXCEPT !.value = t]
    /\ IF Bound THEN Highlight(enabled, timers)
       ELSE UNCHANGED <<highlightTimeout, timers, burst>>
    /\ UNCHANGED <<text, pc, scanVars, resVars, backdrop, enabled, lastText, observing,
                   extVars, imgVars>>

\* keydown with key Enter
KeydownEnter ==
    /\ Bound
    /\ timers.enter < MaxEnterTimers
    /\ timers' = [timers EXCEPT !.enter = @ + 1]
    /\ UNCHANGED <<text, pc, scanVars, resVars, textarea, backdrop, enabled, lastText,
                   highlightTimeout, observing, burst, extVars, imgVars>>

\* the user scrolls the textarea: the scroll listener runs
Scroll ==
    /\ \E y \in ScrollPositions \ {textarea.scrollTop} :
           textarea' = [textarea EXCEPT !.scrollTop = y]
    /\ backdrop' = IF Bound THEN SyncScroll(backdrop, textarea') ELSE backdrop
    /\ UNCHANGED <<text, pc, scanVars, resVars, enabled, lastText, highlightTimeout,
                   timers, observing, burst, extVars, imgVars>>

\* the resize observer's callback
Resize ==
    /\ observing
    /\ lastText' = <<>>
    /\ Highlight(enabled, timers)
    /\ UNCHANGED <<text, pc, scanVars, resVars, textarea, backdrop, enabled, observing,
                   extVars, imgVars>>

\* the focus listener
Focus ==
    /\ Bound
    /\ Highlight(enabled, timers)
    /\ UNCHANGED <<text, pc, scanVars, resVars, textarea, backdrop, enabled, lastText,
                   observing, extVars, imgVars>>

\* the debounce timer fires
DebounceFire ==
    /\ timers.debounce > 0
    /\ highlightTimeout' = IF highlightTimeout = "live" THEN "stale" ELSE highlightTimeout
    /\ burst' = 0
    /\ DoHighlight(textarea, [timers EXCEPT !.debounce = @ - 1])
    /\ UNCHANGED <<pc, resVars, textarea, enabled, observing, extVars, imgVars>>

\* an Enter-key timer fires
EnterFire ==
    /\ timers.enter > 0
    /\ DoHighlight(textarea, [timers EXCEPT !.enter = @ - 1])
    /\ UNCHANGED <<pc, resVars, textarea, enabled, highlightTimeout, observing, burst,
                   extVars, imgVars>>

\* the animation frame asked for by _doHighlight
FrameFire ==
    /\ timers.frame
    /\ timers' = [timers EXCEPT !.frame = FALSE]
    /\ backdrop' = SyncScroll(backdrop, textarea)
    /\ UNCHANGED <<text, pc, scanVars, resVars, textarea, enabled, lastText,
                   highlightTimeout, observing, burst, extVars, imgVars>>

\* setEnabled(b) that switches the display without calling highlight()
SetEnabledToNoHighlight(b) ==
    /\ enabled' = b
    /\ textarea' = ClassListSet(textarea, b)
    /\ backdrop' = [backdrop EXCEPT !.display = IF b THEN "block" ELSE "none"]
    /\ UNCHANGED <<highlightTimeout, timers, burst>>

\* setEnabled(b) of the highlighter
SetEnabledTo(b) ==
    /\ enabled' = b
    /\ textarea' = ClassListSet(textarea, b)
    /\ backdrop' = [backdrop EXCEPT !.display = IF b THEN "block" ELSE "none"]
    /\ Highlight(b, timers)

\* the toggle widget is set to b: its callback calls setEnabled(b) on the
\* node's highlighter when the highlighters map has one
SetEnabled ==
    /\ ~txtNode.removed
    /\ \E b \in BOOLEAN :
           /\ txtNode' = [txtNode EXCEPT !.toggle = b]
           /\ IF NodeId \in highlighters
              THEN SetEnabledTo(b)
              ELSE UNCHANGED <<enabled, textarea, backdrop, highlightTimeout, timers, burst>>
    /\ UNCHANGED <<text, pc, scanVars, resVars, lastText, observing, highlighters, imgVars,
                   previewNode>>

\* the 200 ms timer of loadedGraphNode fires, after the set-up timer: the
\* toggle state is applied once more
LoadedGraphNode ==
    /\ txtNode.restore
    /\ ~txtNode.setup
    /\ txtNode' = [txtNode EXCEPT !.restore = FALSE]
    /\ IF NodeId \in highlighters
       THEN SetEnabledTo(txtNode.toggle)
       ELSE UNCHANGED <<enabled, textarea, backdrop, highlightTimeout, timers, burst>>
    /\ UNCHANGED <<text, pc, scanVars, resVars, lastText, observing, highlighters, imgVars,
                   previewNode>>

\* destroy() of the highlighter
Destroy ==
    /\ observing' = FALSE
    /\ backdrop' = [backdrop EXCEPT !.attached = FALSE]
    /\ textarea' = ClassListSet(textarea, FALSE)
    /\ UNCHANGED <<enabled, lastText, highlightTimeout, timers, burst>>

\* onRemoved: the node's highlighter, when the map has one, is destroyed and
\* leaves the map
OnRemoved ==
    /\ ~txtNode.removed
    /\ txtNode' = [txtNode EXCEPT !.removed = TRUE]
    /\ IF NodeId \in highlighters
       THEN /\ Destroy
            /\ highlighters' = highlighters \ {NodeId}
            /\ pc' = "destroyed"
       ELSE UNCHANGED <<pc, hlVars, highlighters>>
    /\ UNCHANGED <<text, scanVars, resVars, imgVars, previewNode>>

\* the highlighter of another node tokenizes its own text
PeerTokenize ==
    /\ \E t \in HLTexts :
           /\ text' = t
           /\ SetScan(ScanFrom(t, TokenizeEntry(cur)))
    /\ UNCHANGED <<pc, resVars, hlVars, extVars, imgVars>>

HLNext ==
    \/ DeferredSetup
    \/ Input
    \/ KeydownEnter
    \/ Scroll
    \/ Resize
    \/ Focus
    \/ DebounceFire
    \/ EnterFire
    \/ FrameFire
    \/ SetEnabled
    \/ LoadedGraphNode
    \/ OnRemoved
    \/ PeerTokenize

HLSpec == HLInit /\ [][HLNext]_vars

----------------------------------------------------------------------------
(* The whitespace normalizer on its own: the three rules, one per step,    *)
(* over the string in rawOutput; output holds the string so far            *)

\* the normalizer is run on every string of at most MaxNormLen characters
MaxNormLen == 4

NormChars == {" ", ",", "a", "\n", "\t"}

RECURSIVE NormInputs(_)
NormInputs(n) ==
    IF n = 0 THEN {<<>>}
    ELSE LET prev == NormInputs(n - 1)
         IN  prev \cup {q \o <<c>> : q \in prev, c \in NormChars}

NormInit ==
    /\ text = <<>>
    /\ pc = "collapse"
    /\ pos = InitScan.pos
    /\ tokens = InitScan.tokens
    /\ bracketStack = InitScan.bracketStack
    /\ inConditional = InitScan.inConditional
    /\ conditionalDepth = InitScan.conditionalDepth
    /\ validation = InitScan.validation
    /\ rawOutput \in NormInputs(MaxNormLen)
    /\ output = rawOutput
    /\ textarea = [value |-> <<>>, scrollTop |-> 0, highlighted |-> FALSE]
    /\ backdrop = [innerHTML |-> <<>>, display |-> "none", scrollTop |-> 0,
                   attached |-> FALSE]
    /\ enabled = FALSE
    /\ lastText = <<>>
    /\ highlightTimeout = "null"
    /\ timers = [debounce |-> 0, enter |-> 0, frame |-> FALSE]
    /\ observing = FALSE
    /\ burst = 0
    /\ highlighters = {}
    /\ txtNode = [toggle |-> TRUE, setup |-> FALSE, restore |-> FALSE, removed |-> FALSE]
    /\ ImgIdle
    /\ PreviewIdle

NormCollapse ==
    /\ pc = "collapse"
    /\ output' = CollapseSpaces(output)
    /\ pc' = "comma"
    /\ UNCHANGED <<text, scanVars, rawOutput, hlVars, extVars, imgVars>>

NormComma ==
    /\ pc = "comma"
    /\ output' = RemoveSpaceBeforeComma(output)
    /\ pc' = "trim"
    /\ UNCHANGED <<text, scanVars, rawOutput, hlVars, extVars, imgVars>>

NormTrim ==
    /\ pc = "trim"
    /\ output' = Trim(output)
    /\ pc' = "normalized"
    /\ UNCHANGED <<text, scanVars, rawOutput, hlVars, extVars, imgVars>>

NormNext ==
    \/ NormCollapse
    \/ NormComma
    \/ NormTrim

NormSpec == NormInit /\ [][NormNext]_vars

----------------------------------------------------------------------------
(* The load-image node after its deferred set-up: the group and image      *)
(* combos, the image-list requests in flight and the preview image         *)

\* requests in flight at once
MaxFetches == 2

Groups == {DEFAULT_GROUP, "cats"}

\* preview images being loaded at once
MaxLoads == 2

Files == {"a.png", "b.png"}

\* the image files the server holds for a group
ImagesOf(g) ==
    IF g = "cats" THEN <<"a.png", "b.png">> ELSE <<>>

\* the group lists the server answers /bedrot/groups with
GroupBodies == {<<DEFAULT_GROUP, "cats">>, <<>>}

\* how a request ends: an OK response with a JSON body, an OK response whose
\* body does not parse, a non-OK response with or without a JSON body, or a
\* rejected fetchApi call
Responses == {"ok", "ok-badjson", "status", "status-badjson", "network"}

\* a call in flight: the function awaited (op), the group it is for and, for
\* an upload, the file's name
Request(op, group, name) == [op |-> op, group |-> group, name |-> name]

\* fetchGroups() that lets the exception of its try block escape
fetchGroupsNoCatch(resp, body) ==
    LET try == IF resp = "ok" THEN [kind |-> "return", value |-> body]
               ELSE IF resp \in {"status", "status-badjson"}
                    THEN [kind |-> "through", value |-> <<>>]
                    ELSE [kind |-> "throw", value |-> <<>>]
    IN  IF try.kind = "return" THEN [threw |-> FALSE, value |-> try.value]
        ELSE [threw |-> try.kind = "throw", value |-> <<DEFAULT_GROUP>>]

\* fetchGroups(), given how the request ends and the server's group list:
\* threw tells whether an exception leaves the function, value is the list
\* returned
fetchGroups(resp, body) ==
    LET try == IF resp = "ok" THEN [kind |-> "return", value |-> body]
               ELSE IF resp \in {"status", "status-badjson"}
                    THEN [kind |-> "through", value |-> <<>>]
                    ELSE [kind |-> "throw", value |-> <<>>]
    IN  IF try.kind = "return" THEN [threw |-> FALSE, value |-> try.value]
        ELSE [threw |-> FALSE, value |-> <<DEFAULT_GROUP>>]

\* fetchImagesForGroup(group), given how the request ends
fetchImagesForGroup(group, resp) ==
    LET try == IF resp = "ok"
               THEN [kind |-> "return",
                     value |-> IF Len(ImagesOf(group)) = 0 THEN <<NoImages>>
                               ELSE ImagesOf(group)]
               ELSE IF resp \in {"status", "status-badjson"}
                    THEN [kind |-> "through", value |-> <<>>]
                    ELSE [kind |-> "throw", value |-> <<>>]
    IN  IF try.kind = "return" THEN [threw |-> FALSE, value |-> try.value]
        ELSE [threw |-> FALSE, value |-> <<NoImages>>]

\* uploadImageToGroup(file, group), given the file's name and how the request
\* ends: value is <<>> for null, else the server's answer
uploadImageToGroup(name, resp) ==
    LET try == IF resp = "ok" THEN [kind |-> "return", value |-> <<[name |-> name]>>]
               ELSE IF resp = "status" THEN [kind |-> "return", value |-> <<>>]
               ELSE [kind |-> "throw", value |-> <<>>]
    IN  IF try.kind = "return" THEN [threw |-> FALSE, value |-> try.value]
        ELSE [threw |-> FALSE, value |-> <<>>]

\* updateComboOptions(widget, options) with the current value always kept
updateComboOptionsKeepsValue(widget, options) ==
    IF DOMAIN widget = {} \/ "options" \notin DOMAIN widget THEN widget
    ELSE [widget EXCEPT !.options = options]

\* updateComboOptions(widget, options): a missing widget has no field at all,
\* the field options stands for widget.options.values
updateComboOptions(widget, options) ==
    IF DOMAIN widget = {} \/ "options" \notin DOMAIN widget THEN widget
    ELSE [widget EXCEPT
              !.options = options,
              !.value = IF \E k \in 1..Len(options) : options[k] = widget.value
                        THEN @
                        ELSE IF options = <<>> \/ options[1] = "" THEN ""
                             ELSE options[1]]

\* buildPreviewUrl(group, filename): <<>> for null
buildPreviewUrl(group, filename) ==
    IF filename = "" \/ filename = NoImages THEN <<>>
    ELSE <<[group |-> group, filename |-> filename]>>

\* a new Image whose src is set to the URL url: with a null URL no image
\* ever loads
LoadImage(url) ==
    /\ loads' = loads \cup {u \in {[group |-> g, filename |-> f] :
                                       g \in Groups, f \in Files} : url = <<u>>}
    /\ Cardinality(loads') <= MaxLoads

\* updateImagePreview(), given the two widgets: a load of the preview image
\* is started when there is a preview URL; node.imgs is replaced when an image
\* has loaded and not before
updateImagePreview(gw, iw) ==
    LoadImage(buildPreviewUrl(IF gw.value = "" THEN DEFAULT_GROUP ELSE gw.value,
                              iw.value))

ImgInit ==
    /\ text = <<>>
    /\ pc = "images"
    /\ pos = InitScan.pos
    /\ tokens = InitScan.tokens
    /\ bracketStack = InitScan.bracketStack
    /\ inConditional = InitScan.inConditional
    /\ conditionalDepth = InitScan.conditionalDepth
    /\ validation = InitScan.validation
    /\ rawOutput = <<>>
    /\ output = <<>>
    /\ textarea = [value |-> <<>>, scrollTop |-> 0, highlighted |-> FALSE]
    /\ backdrop = [innerHTML |-> <<>>, display |-> "none", scrollTop |-> 0,
                   attached |-> FALSE]
    /\ enabled = FALSE
    /\ lastText = <<>>
    /\ highlightTimeout = "null"
    /\ timers = [debounce |-> 0, enter |-> 0, frame |-> FALSE]
    /\ observing = FALSE
    /\ burst = 0
    /\ highlighters = {}
    /\ txtNode = [toggle |-> TRUE, setup |-> FALSE, restore |-> FALSE, removed |-> FALSE]
    /\ ImgIdle
    /\ PreviewIdle

\* the calls in flight without the k-th
FetchesWithout(k) == SubSeq(fetches, 1, k - 1) \o SubSeq(fetches, k + 1, Len(fetches))

\* the user picks another group: the combo takes the value and its callback
\* sends the request for the group's images
SelectGroup ==
    /\ Len(fetches) < MaxFetches
    /\ \E g \in Range(groupWidget.options) \ {groupWidget.value} :
           /\ groupWidget' = [groupWidget EXCEPT !.value = g]
           /\ fetches' = Append(fetches, Request("images", g, ""))
    /\ UNCHANGED <<text, pc, scanVars, resVars, hlVars, extVars, imageWidget, imgs, loads>>

\* the k-th call, for a group's images, ends with resp: the rest of the group
\* callback (and of bedrotRefreshGroups) runs
FetchDoneAt(k, resp) ==
    LET images == fetchImagesForGroup(fetches[k].group, resp) IN
    /\ fetches[k].op = "images"
    /\ fetches' = FetchesWithout(k)
    /\ IF images.threw
       THEN pc' = "rejected" /\ UNCHANGED <<imageWidget, loads>>
       ELSE /\ imageWidget' = updateComboOptions(imageWidget, images.value)
            /\ updateImagePreview(groupWidget, imageWidget')
            /\ pc' = pc
    /\ UNCHANGED <<text, scanVars, resVars, hlVars, extVars, groupWidget, imgs>>

FetchDone == \E k \in 1..Len(fetches), resp \in Responses : FetchDoneAt(k, resp)

\* "Refresh Groups & Images" of the context menu: bedrotRefreshGroups up to
\* its first await
RefreshGroups ==
    /\ Len(fetches) < MaxFetches
    /\ fetches' = Append(fetches, Request("groups", "", ""))
    /\ UNCHANGED <<text, pc, scanVars, resVars, hlVars, extVars, groupWidget, imageWidget,
                   imgs, loads>>

\* the k-th call, for the groups, ends with resp and the group list body:
\* bedrotRefreshGroups goes on to its second await
GroupsDoneAt(k, resp, body) ==
    LET groups == fetchGroups(resp, body) IN
    /\ fetches[k].op = "groups"
    /\ IF groups.threw
       THEN /\ pc' = "rejected"
            /\ fetches' = FetchesWithout(k)
            /\ UNCHANGED groupWidget
       ELSE /\ groupWidget' = updateComboOptions(groupWidget, groups.value)
            /\ fetches' = [fetches EXCEPT ![k] = Request("images", groupWidget'.value, "")]
            /\ pc' = pc
    /\ UNCHANGED <<text, scanVars, resVars, hlVars, extVars, imageWidget, imgs, loads>>

GroupsDone ==
    \E k \in 1..Len(fetches), resp \in Responses, body \in GroupBodies :
        GroupsDoneAt(k, resp, body)

\* onDragDrop with one image file that the current group holds already: the
\* handler up to its first await
DragDrop ==
    /\ Len(fetches) < MaxFetches
    /\ LET group == IF groupWidget.value = "" THEN DEFAULT_GROUP ELSE groupWidget.value
       IN  \E f \in Range(ImagesOf(group)) :
               fetches' = Append(fetches, Request("upload", group, f))
    /\ UNCHANGED <<text, pc, scanVars, resVars, hlVars, extVars, groupWidget, imageWidget,
                   imgs, loads>>

\* the k-th call, an upload, ends with resp: with a result onDragDrop goes on
\* to fetch the group's images, without one it is done
UploadDoneAt(k, resp) ==
    LET result == uploadImageToGroup(fetches[k].name, resp) IN
    /\ fetches[k].op = "upload"
    /\ pc' = IF result.threw THEN "rejected" ELSE pc
    /\ fetches' = IF ~result.threw /\ result.value # <<>>
                  THEN [fetches EXCEPT ![k] = Request("uploaded", fetches[k].group,
                                                      result.value[1].name)]
                  ELSE FetchesWithout(k)
    /\ UNCHANGED <<text, scanVars, resVars, hlVars, extVars, groupWidget, imageWidget,
                   imgs, loads>>

UploadDone == \E k \in 1..Len(fetches), resp \in Responses : UploadDoneAt(k, resp)

\* the k-th call, for the images of the group uploaded to, ends with resp:
\* the rest of onDragDrop
UploadedDoneAt(k, resp) ==
    LET images == fetchImagesForGroup(fetches[k].group, resp)
        widget == updateComboOptions(imageWidget, images.value)
    IN  /\ fetches[k].op = "uploaded"
        /\ fetches' = FetchesWithout(k)
        /\ IF images.threw
           THEN pc' = "rejected" /\ UNCHANGED <<imageWidget, loads>>
           ELSE /\ imageWidget' = IF fetches[k].name \in Range(images.value)
                                  THEN [widget EXCEPT !.value = fetches[k].name]
                                  ELSE widget
                /\ LoadImage(buildPreviewUrl(fetches[k].group, fetches[k].name))
                /\ pc' = pc
        /\ UNCHANGED <<text, scanVars, resVars, hlVars, extVars, groupWidget, imgs>>

UploadedDone == \E k \in 1..Len(fetches), resp \in Responses : UploadedDoneAt(k, resp)

\* the user picks another image of the list: the image callback runs
SelectImage ==
    /\ \E k \in 1..Len(imageWidget.options) :
           /\ imageWidget.options[k] # imageWidget.value
           /\ imageWidget' = [imageWidget EXCEPT !.value = imageWidget.options[k]]
           /\ updateImagePreview(groupWidget, imageWidget')
    /\ UNCHANGED <<text, pc, scanVars, resVars, hlVars, extVars, groupWidget, fetches, imgs>>

\* a preview image that the server holds has loaded: img.onload
ImageLoaded ==
    /\ \E u \in loads :
           /\ u.filename \in Range(ImagesOf(u.group))
           /\ imgs' = <<u>>
           /\ loads' = loads \ {u}
    /\ UNCHANGED <<text, pc, scanVars, resVars, hlVars, extVars, groupWidget, imageWidget,
                   fetches>>

\* a preview image fails to load: onload never runs
ImageFailed ==
    /\ \E u \in loads : loads' = loads \ {u}
    /\ UNCHANGED <<text, pc, scanVars, resVars, hlVars, extVars, groupWidget, imageWidget,
                   fetches, imgs>>

ImgNext ==
    \/ SelectGroup
    \/ FetchDone
    \/ RefreshGroups
    \/ GroupsDone
    \/ DragDrop
    \/ UploadDone
    \/ UploadedDone
    \/ SelectImage
    \/ ImageLoaded
    \/ ImageFailed

ImgSpec == ImgInit /\ [][ImgNext]_vars

----------------------------------------------------------------------------
(* The preview node: the widgets that populate() makes for the text of an  *)
(* execution result or of a saved workflow                                 *)

\* entries of one text array
MaxEntries == 3

\* the strings a text holds
PreviewStrings == {"a", "b"}

\* an entry of a text array: <<>> for null or undefined, <<s>> for a string
Entries == {<<>>} \cup {<<s>> : s \in PreviewStrings}

RECURSIVE EntryLists(_)
EntryLists(n) ==
    IF n = 0 THEN {<<>>}
    ELSE LET prev == EntryLists(n - 1)
         IN  prev \cup {q \o <<e>> : q \in prev, e \in Entries}

\* message.text: absent, a string, or an array of entries
Texts ==
    {[kind |-> "undefined", items |-> <<>>]}
        \cup {[kind |-> "string", items |-> <<<<s>>>>] : s \in PreviewStrings \cup {""}}
        \cup {[kind |-> "array", items |-> q] : q \in EntryLists(MaxEntries)}

\* the widgets_values of a saved workflow: the input widget's value and one
\* preview's
SavedValues == [kind |-> "array", items |-> <<<<"a">>, <<"b">>>>]

\* the slot that `widgets.length = 1` makes in an empty widget list
EmptySlot == [name |-> <<"empty", 0>>, value |-> "", readOnly |-> FALSE]

\* populate: the loop that creates one read-only widget "preview_<length>"
\* for each value that is not null or undefined
RECURSIVE CreateWidgets(_, _)
CreateWidgets(widgets, values) ==
    IF values = <<>> THEN widgets
    ELSE LET t == Head(values)
         IN  CreateWidgets(IF t = <<>> THEN widgets
                           ELSE Append(widgets, [name |-> <<"preview", Len(widgets)>>,
                                                 value |-> t[1],
                                                 readOnly |-> TRUE]),
                           Tail(values))

\* populate(text) that leaves the widgets of earlier calls in place
populateKeepsOld(n, txt) ==
    [n EXCEPT !.widgets = CreateWidgets(n.widgets, txt.items), !.frame = TRUE]

\* populate(text) on the node n: the widgets from index isConvertedWidget on
\* are removed, the new ones are created, a resize is asked for
populate(n, txt) ==
    LET isConvertedWidget == IF n.converted THEN 1 ELSE 0
        kept == [k \in 1..isConvertedWidget |->
                     IF k <= Len(n.widgets) THEN n.widgets[k] ELSE EmptySlot]
    IN  [n EXCEPT !.widgets = CreateWidgets(kept, txt.items), !.frame = TRUE]

\* a new preview node: its text input is a widget, which may have been
\* converted to an input, or is an input without a widget; a node of a saved
\* workflow has the populate of its widgets_values waiting for a frame
PreviewInit ==
    /\ text = <<>>
    /\ pc = "preview"
    /\ pos = InitScan.pos
    /\ tokens = InitScan.tokens
    /\ bracketStack = InitScan.bracketStack
    /\ inConditional = InitScan.inConditional
    /\ conditionalDepth = InitScan.conditionalDepth
    /\ validation = InitScan.validation
    /\ rawOutput = <<>>
    /\ output = <<>>
    /\ textarea = [value |-> <<>>, scrollTop |-> 0, highlighted |-> FALSE]
    /\ backdrop = [innerHTML |-> <<>>, display |-> "none", scrollTop |-> 0,
                   attached |-> FALSE]
    /\ enabled = FALSE
    /\ lastText = <<>>
    /\ highlightTimeout = "null"
    /\ timers = [debounce |-> 0, enter |-> 0, frame |-> FALSE]
    /\ observing = FALSE
    /\ burst = 0
    /\ highlighters = {}
    /\ txtNode = [toggle |-> TRUE, setup |-> FALSE, restore |-> FALSE, removed |-> FALSE]
    /\ ImgIdle
    /\ \E converted \in BOOLEAN, widget \in BOOLEAN, saved \in BOOLEAN :
           /\ converted => widget
           /\ previewNode = [converted |-> converted,
                             widgets |-> IF widget THEN <<TextWidget>> ELSE <<>>,
                             frame |-> FALSE,
                             configured |-> saved]

\* onExecuted(message): populate when message.text is truthy
OnExecutedWith(txt) ==
    /\ previewNode' =
           IF txt.kind = "array" \/ (txt.kind = "string" /\ txt.items # <<<<"">>>>)
           THEN populate(previewNode, txt)
           ELSE previewNode
    /\ UNCHANGED <<text, pc, scanVars, resVars, hlVars, highlighters, txtNode, imgVars>>

OnExecuted == \E txt \in Texts : OnExecutedWith(txt)

\* the animation frame asked for by onConfigure: populate(widgets_values)
ConfigureFrame ==
    /\ previewNode.configured
    /\ previewNode' = [populate(previewNode, SavedValues) EXCEPT !.configured = FALSE]
    /\ UNCHANGED <<text, pc, scanVars, resVars, hlVars, highlighters, txtNode, imgVars>>

\* the animation frame asked for by populate: the node is resized
ResizeFrame ==
    /\ previewNode.frame
    /\ previewNode' = [previewNode EXCEPT !.frame = FALSE]
    /\ UNCHANGED <<text, pc, scanVars, resVars, hlVars, highlighters, txtNode, imgVars>>

\* the user converts the text widget to an input, or the input back to a
\* widget: inputs[0].widget appears or goes
ConvertWidget ==
    /\ previewNode.converted \/ (previewNode.widgets # <<>> /\ previewNode.widgets[1] = TextWidget)
    /\ previewNode' = [previewNode EXCEPT !.converted = ~@]
    /\ UNCHANGED <<text, pc, scanVars, resVars, hlVars, highlighters, txtNode, imgVars>>

PreviewNext ==
    \/ OnExecuted
    \/ ConfigureFrame
    \/ ResizeFrame
    \/ ConvertWidget

PreviewSpec == PreviewInit /\ [][PreviewNext]_vars

----------------------------------------------------------------------------
(* Reading the grammar off the scanned spans *)

IsDigit(c) == c \in Digits

IsDirective(tk) == tk.type \in {COND_POS_DIRECTIVE, COND_NEG_DIRECTIVE}

\* the spans whose text can reach the output
IsOrdinary(tk) ==
    tk.type \notin {FLAG_TOKEN, INVALID_TOKEN, TAG_BYPASS, COND_POS_DIRECTIVE,
                    COND_NEG_DIRECTIVE, COND_CLOSE}

\* the id K written in a directive `[K:` or `[-K:`, and its sign
WrittenId(tk) == ParseInt(SelectSeq(tk.value, IsDigit))
WrittenNegative(tk) == tk.value[2] = "-"

\* the documented rule: `[K: ...]` is kept iff K is activated, `[-K: ...]` iff not
RuleKeeps(tk, F) ==
    IF WrittenNegative(tk) THEN WrittenId(tk) \notin F ELSE WrittenId(tk) \in F

\* indices of the directives that are open just before span i, outermost first
RECURSIVE OpenBefore(_, _)
OpenBefore(toks, i) ==
    IF i <= 1 THEN <<>>
    ELSE LET before == OpenBefore(toks, i - 1)
             tk == toks[i - 1]
         IN  IF IsDirective(tk) THEN Append(before, i - 1)
             ELSE IF tk.type = COND_CLOSE THEN Pop(before)
             ELSE before

\* span i is an ordinary span all of whose enclosing blocks are kept
Visible(toks, i, F) ==
    /\ IsOrdinary(toks[i])
    /\ LET open == OpenBefore(toks, i)
       IN  \A k \in 1..Len(open) : RuleKeeps(toks[open[k]], F)

\* the texts of the visible spans, in order
RECURSIVE VisibleFrom(_, _, _)
VisibleFrom(toks, i, F) ==
    IF i > Len(toks) THEN <<>>
    ELSE (IF Visible(toks, i, F) THEN toks[i].value ELSE <<>>)
         \o VisibleFrom(toks, i + 1, F)

VisibleText(toks, F) == VisibleFrom(toks, 1, F)

\* s contains a flag token, a bare negative token or a directive
HasMarkup(s) ==
    \E p \in 0..(Len(s) - 1) :
        \/ FlagMatch(s, p) > 0
        \/ InvalidNegMatch(s, p) > 0
        \/ CondPosMatch(s, p) > 0
        \/ CondNegMatch(s, p) > 0

HasTokenOfType(ty) == \E i \in 1..Len(tokens) : tokens[i].type = ty

FlagSets == {<<>>, FlagOne, FlagTwo, FlagOne \o FlagTwo}

----------------------------------------------------------------------------
(* Claims *)

\* C1: a positive block [K: content] is kept iff K is activated and a negative
\* block [-K: content] iff K is not: without nesting the output is exactly the
\* text outside blocks plus the content of the blocks the rule keeps, and
\* [-K: a][K: b] resolves to a when K is not activated and to b when it is.
C1_KeptIffFlag ==
    pc = "done" =>
        /\ validation.nestedConditionals = <<>>
               => rawOutput = VisibleText(tokens, validation.flagsUsed)
        /\ \A f \in FlagSets :
               /\ text = f \o PairOne
                      => output = IF 1 \in validation.flagsUsed THEN <<"b">> ELSE <<"a">>
               /\ text = f \o PairTwo
                      => output = IF 2 \in validation.flagsUsed THEN <<"b">> ELSE <<"a">>

C1_Witness ==
    /\ pc = "done"
    /\ text = FlagOne \o PairOne
    /\ validation.flagsUsed = {1}
    /\ output = <<"b">>

\* C2: every bare [N] occurring anywhere in the input, whatever surrounds it,
\* adds N to validation.flagsUsed.
C2_FlagsAnywhere ==
    pc \in {"tokenized", "done"} =>
        \A p \in 0..(Len(text) - 1) :
            FlagMatch(text, p) > 0 =>
                ParseInt(Substring(text, p + 1, p + FlagMatch(text, p) - 1))
                    \in validation.flagsUsed

\* C3 as stated: for every input the resolved output contains no [N], no [-N]
\* and no directive [K: or [-K:.
C3_NoMarkupInOutput == pc = "done" => ~HasMarkup(output)

NoUnbalancedSquare ==
    \A i \in 1..Len(tokens) :
        tokens[i].type = UNBALANCED => tokens[i].value \notin {<<"[">>, <<"]">>}

\* C3 amended: when the scan yields no unbalanced square bracket span, the
\* output contains no square bracket at all, hence no [N], [-N], [K: or [-K:.
C3_NoMarkupWithoutUnbalanced ==
    (pc = "done" /\ NoUnbalancedSquare) =>
        /\ \A i \in 1..Len(output) : output[i] \notin {"[", "]"}
        /\ ~HasMarkup(output)

C3_Witness ==
    /\ pc = "done"
    /\ text = TogglePrompt
    /\ NoUnbalancedSquare
    /\ HasTokenOfType(FLAG_TOKEN)
    /\ HasTokenOfType(COND_NEG_DIRECTIVE)
    /\ output # <<>>

\* C4: the spans partition the input: the first starts at offset 0, each starts
\* where the previous one ends, none is empty, each one's text is the input
\* slice it covers, and they end at the scan position, which is the input
\* length once the scan is over.
C4_SpansPartition ==
    /\ Len(tokens) > 0 => tokens[1].start = 0
    /\ \A i \in 1..Len(tokens) :
           /\ tokens[i].start < tokens[i].end
           /\ tokens[i].value = Substring(text, tokens[i].start, tokens[i].end)
           /\ i < Len(tokens) => tokens[i + 1].start = tokens[i].end
    /\ (IF Len(tokens) > 0 THEN tokens[Len(tokens)].end ELSE 0) = pos
    /\ pc # "scan" => pos = Len(text)

C4_Witness ==
    /\ pc = "tokenized"
    /\ text = WeightedParen
    /\ Len(tokens) = 4
    /\ tokens[3].type = PAREN_WEIGHT
    /\ tokens[4].end = Len(text)

\* C5: every iteration of the scan loop strictly advances the scan position
\* without passing the input length, so the scan ends; findMatchingBracket
\* returns -1 or the offset of a closing bracket behind the opener, also for a
\* bypass marker whose bracket is never closed.
C5_ScanAdvances ==
    [][(pc = "scan" /\ pos < Len(text)) =>
           /\ pos' > pos
           /\ pos' <= Len(text)
           /\ Len(tokens') > Len(tokens)
           /\ (StartsWith(text, pos, <<"-", "-", "-">>) /\ At(text, pos + 3) \in Openers) =>
                  LET m == FindMatchingBracket(text, pos + 4, At(text, pos + 3),
                                               bracketPairs(At(text, pos + 3)))
                  IN  /\ m = -1 \/ (m >= pos + 4 /\ m < Len(text))
                      /\ pos' = IF m = -1 THEN Len(text) ELSE m + 1]_vars

C5_Witness ==
    /\ pc = "tokenized"
    /\ pos = Len(text)
    /\ \E i \in 1..Len(tokens) : tokens[i].type = TAG_BYPASS /\ tokens[i].unbalanced

\* C6: nested blocks resolve all-or-nothing: the output is made of exactly the
\* spans all of whose enclosing blocks are kept, and
\* [1: h [2: w], s] resolves to `h, s` with flag 1 only, to `h w, s` with
\* flags 1 and 2, and to the empty string without flag 1.
C6_NestedAllOrNothing ==
    pc = "done" =>
        /\ rawOutput = VisibleText(tokens, validation.flagsUsed)
        /\ \A f \in FlagSets :
               text = f \o NestedBlock =>
                   output = IF validation.flagsUsed = {1}
                            THEN <<"h", ",", " ", "s">>
                            ELSE IF validation.flagsUsed = {1, 2}
                            THEN <<"h", " ", "w", ",", " ", "s">>
                            ELSE <<>>

C6_Witness ==
    /\ pc = "done"
    /\ text = FlagOne \o NestedBlock
    /\ validation.nestedConditionals # <<>>
    /\ output = <<"h", ",", " ", "s">>

\* C7: `p [1], [1: g], [-1: w]` resolves to exactly `p, g`, and the same text
\* without the [1] token to exactly `p, w`.
C7_ToggleExample ==
    pc = "done" =>
        /\ text = TogglePrompt => output = <<"p", ",", " ", "g">>
        /\ text = TogglePromptOff => output = <<"p", ",", " ", "w">>

\* the text with span i cut out, and a string inserted at offset j
Without(t, tk) == Substring(t, 0, tk.start) \o Substring(t, tk.end, Len(t))
InsertAt(t, j, v) == Substring(t, 0, j) \o v \o Substring(t, j, Len(t))

\* C8: moving a flag token [K] from any position of the input to any other
\* position leaves the resolved output identical.
C8_FlagPositionIndependent ==
    pc = "done" =>
        \A i \in 1..Len(tokens) :
            tokens[i].type = FLAG_TOKEN =>
                LET rest == Without(text, tokens[i])
                IN  \A j \in 0..Len(rest) :
                        resolve(InsertAt(rest, j, tokens[i].value)) = output

OnlyTextAndInvalid(toks) ==
    \A i \in 1..Len(toks) : toks[i].type \in {TEXT, INVALID_TOKEN}

\* C9: a bare negative token [-N] is scanned as one invalid token that leaves
\* the bracket stack, the conditional depth and both flag sets unchanged, and
\* the resolver removes it: a text of plain text and [-N] tokens only resolves
\* to its plain text with no flag activated.
C9_BareNegativeIsNoise ==
    [][/\ (pc = "scan" /\ pos < Len(text) /\ InvalidNegMatch(text, pos) > 0) =>
              /\ tokens' = Append(tokens,
                     Tok(INVALID_TOKEN,
                         Substring(text, pos, pos + InvalidNegMatch(text, pos)),
                         pos, pos + InvalidNegMatch(text, pos)))
              /\ UNCHANGED <<bracketStack, conditionalDepth, inConditional, validation>>
       /\ (pc' = "done" /\ pc = "tokenized" /\ OnlyTextAndInvalid(tokens)) =>
              /\ validation.flagsUsed = {}
              /\ validation.conditionalsUsed = {}
              /\ rawOutput' = VisibleText(tokens, {})
              /\ ~HasMarkup(output')]_vars

C9_Witness ==
    /\ pc = "done"
    /\ text = <<"a", "[", "-", "1", "]", "a">>
    /\ HasTokenOfType(INVALID_TOKEN)
    /\ validation.flagsUsed = {}
    /\ output = <<"a", "a">>

\* C10: no plain-text span contains the `---` marker.
C10_NoMarkerInPlainText ==
    \A i \in 1..Len(tokens) :
        tokens[i].type = TEXT =>
            \A p \in 0..(Len(tokens[i].value) - 1) :
                ~StartsWith(tokens[i].value, p, <<"-", "-", "-">>)

\* offset p holds a backslash immediately followed by a parenthesis
IsEscapeAt(t, p) == At(t, p) = "\\" /\ At(t, p + 1) \in {"(", ")"}

\* C11: an escaped parenthesis (a backslash immediately followed by `(` or `)`)
\* is opaque: its parenthesis is no paren-open, paren-close or unbalanced span,
\* is never on the bracket stack and never among the unbalanced brackets.
C11_EscapeIsOpaque ==
    \A p \in 0..(Len(text) - 2) :
        IsEscapeAt(text, p) =>
            /\ \A i \in 1..Len(tokens) :
                   tokens[i].start = p + 1 =>
                       tokens[i].type \notin {PAREN_OPEN, PAREN_CLOSE, UNBALANCED}
            /\ \A k \in 1..Len(bracketStack) : bracketStack[k].pos # p + 1
            /\ \A k \in 1..Len(validation.unbalancedBrackets) :
                   validation.unbalancedBrackets[k] # p + 1

\* the start offsets of the opening spans of toks[i..] that no closing span
\* pairs with, outermost first, given those open before span i
RECURSIVE UnclosedFrom(_, _, _)
UnclosedFrom(toks, i, open) ==
    IF i > Len(toks) THEN open
    ELSE LET tk == toks[i] IN
         UnclosedFrom(toks, i + 1,
             IF tk.type \in {PAREN_OPEN, CURLY_OPEN, COND_POS_DIRECTIVE, COND_NEG_DIRECTIVE}
             THEN Append(open, tk.start)
             ELSE IF tk.type \in {PAREN_CLOSE, CURLY_CLOSE, COND_CLOSE}
             THEN Pop(open)
             ELSE open)

\* t is ordinary text around exactly one `(`: no other bracket character and
\* no `---` marker
OneOpenParen(t) ==
    /\ Cardinality({p \in 1..Len(t) : t[p] = "("}) = 1
    /\ \A p \in 1..Len(t) : t[p] \in Special => t[p] = "("
    /\ \A p \in 0..(Len(t) - 1) : ~StartsWith(t, p, <<"-", "-", "-">>)

\* C12: validation.unbalancedBrackets is empty during the scan and, once
\* tokenize has returned, holds exactly the start offsets of the `(`, `{` and
\* directive spans that were never closed, each once, outermost first; a text
\* with one `(`, no `)` and otherwise ordinary text reports exactly that `(`
\* and the resolver leaves the text as it is.
C12_UnclosedAreReported ==
    /\ pc = "scan" => validation.unbalancedBrackets = <<>>
    /\ pc # "scan" =>
           /\ validation.unbalancedBrackets = UnclosedFrom(tokens, 1, <<>>)
           /\ \A j, k \in 1..Len(validation.unbalancedBrackets) :
                  j # k => validation.unbalancedBrackets[j] # validation.unbalancedBrackets[k]
           /\ OneOpenParen(text) =>
                  \E p \in 0..(Len(text) - 1) :
                      /\ At(text, p) = "("
                      /\ validation.unbalancedBrackets = <<p>>
    /\ (pc = "done" /\ OneOpenParen(text)) => rawOutput = text

C12_Witness ==
    /\ pc = "done"
    /\ text = <<"a", "(", "a">>
    /\ validation.unbalancedBrackets = <<1>>
    /\ output = <<"a", "(", "a">>

\* span i is an opening bracket or directive that is never closed
IsUnclosedOpener(i) ==
    /\ tokens[i].type \in {PAREN_OPEN, CURLY_OPEN, COND_POS_DIRECTIVE, COND_NEG_DIRECTIVE}
    /\ tokens[i].start \in Range(validation.unbalancedBrackets)

\* C13: in the rendered backdrop every unbalanced bracket carries the
\* unbalanced style class: a stray closing bracket, and an opening `(`, `{` or
\* directive that is never closed.
C13_UnbalancedIsFlagged ==
    pc = "rendered" =>
        \A i \in 1..Len(tokens) :
            (tokens[i].type = UNBALANCED \/ IsUnclosedOpener(i)) =>
                "bedrot-unbalanced" \in Range(backdrop.innerHTML[i].classes)

\* piece i of the backdrop carries class c
HasClass(i, c) == c \in Range(backdrop.innerHTML[i].classes)

\* some directive span / some flag token span is written with the id of span i
DirectiveWithIdOf(i) ==
    \E j \in 1..Len(tokens) :
        IsDirective(tokens[j]) /\ WrittenId(tokens[j]) = WrittenId(tokens[i])
FlagWithIdOf(i) ==
    \E j \in 1..Len(tokens) :
        tokens[j].type = FLAG_TOKEN /\ WrittenId(tokens[j]) = WrittenId(tokens[i])

\* C14: in the rendering a flag token [N] carries the orphan mark iff no
\* directive span [N: or [-N: exists, a directive carries the unused mark iff
\* no flag token span [N] exists, no other span carries either mark, and
\* `a [5]` yields the orphan mark on [5] and no other diagnostic.
C14_OrphanAndUnused ==
    pc = "rendered" =>
        /\ \A i \in 1..Len(tokens) :
               /\ HasClass(i, "bedrot-orphan-flag") <=>
                      (tokens[i].type = FLAG_TOKEN /\ ~DirectiveWithIdOf(i))
               /\ HasClass(i, "bedrot-unused-cond") <=>
                      (IsDirective(tokens[i]) /\ ~FlagWithIdOf(i))
        /\ text = OrphanFive =>
               /\ orphanFlags(validation) = {5}
               /\ unusedConds(validation) = {}
               /\ validation.unbalancedBrackets = <<>>
               /\ validation.nestedConditionals = <<>>
               /\ Cardinality({i \in 1..Len(tokens) : HasClass(i, "bedrot-orphan-flag")}) = 1
               /\ \A i \in 1..Len(tokens) :
                      Range(backdrop.innerHTML[i].classes)
                          \subseteq {"bedrot-flag-token", "bedrot-orphan-flag"}

C14_Witness ==
    /\ pc = "rendered"
    /\ text = OrphanFive
    /\ HasClass(2, "bedrot-orphan-flag")

\* a flag token without the orphan mark beside a directive with the unused mark
C14_WitnessMixed ==
    /\ pc = "rendered"
    /\ \E i, j \in 1..Len(tokens) :
           /\ tokens[i].type = FLAG_TOKEN /\ ~HasClass(i, "bedrot-orphan-flag")
           /\ IsDirective(tokens[j]) /\ HasClass(j, "bedrot-unused-cond")

\* The matching close of the opening bracket at offset o, or -1: walking right
\* from o + 1 with depth 1, a bracket like the opener adds one, its closing
\* bracket takes one off and is the match when the depth reaches 0, and an
\* opening bracket of another family that has a matching close is skipped
\* together with its whole group.
RECURSIVE CloseOf(_, _), CloseWalk(_, _, _, _)
CloseWalk(t, o, p, d) ==
    IF p >= Len(t) THEN -1
    ELSE IF t[p + 1] = bracketPairs(t[o + 1])
    THEN (IF d = 1 THEN p ELSE CloseWalk(t, o, p + 1, d - 1))
    ELSE IF t[p + 1] = t[o + 1] THEN CloseWalk(t, o, p + 1, d + 1)
    ELSE IF t[p + 1] \in Openers /\ CloseOf(t, p) # -1
    THEN CloseWalk(t, o, CloseOf(t, p) + 1, d)
    ELSE CloseWalk(t, o, p + 1, d)

CloseOf(t, o) == CloseWalk(t, o, o + 1, 1)

\* the number of offsets in a..(b - 1) that hold character c
CountOf(t, a, b, c) == Cardinality({p \in a..(b - 1) : At(t, p) = c})

\* span i is a bypass whose marker is directly followed by an opening bracket
IsBracketBypass(i) ==
    /\ tokens[i].type = TAG_BYPASS
    /\ Len(tokens[i].value) > 3
    /\ tokens[i].value[4] \in Openers

\* C15: a bypass whose marker is directly followed by `(`, `[` or `{` runs from
\* the marker through the matching close of that bracket (nested brackets of
\* the same family counted, whole groups of the other families skipped); when
\* there is no matching close it runs to the end of the input and is marked
\* unbalanced.  With no bracket of another family behind the opener the close
\* is the first one that leaves as many openers as closers before it.
C15_BracketBypassExtent ==
    \A i \in 1..Len(tokens) :
        IsBracketBypass(i) =>
            LET tk == tokens[i]
                o == tk.start + 3
                m == CloseOf(text, o)
                openChar == At(text, o)
                closeChar == bracketPairs(openChar)
                others == Special \ {openChar, closeChar}
            IN  /\ StartsWith(text, tk.start, <<"-", "-", "-">>)
                /\ tk.value = Substring(text, tk.start, tk.end)
                /\ tk.unbalanced <=> m = -1
                /\ tk.end = IF m = -1 THEN Len(text) ELSE m + 1
                /\ ~tk.unbalanced => At(text, tk.end - 1) = closeChar
                /\ (\A p \in o..(Len(text) - 1) : At(text, p) \notin others) =>
                       /\ ~tk.unbalanced =>
                              /\ CountOf(text, o, tk.end, openChar)
                                     = CountOf(text, o, tk.end, closeChar)
                              /\ \A q \in (o + 1)..(tk.end - 1) :
                                     CountOf(text, o, q, openChar)
                                         > CountOf(text, o, q, closeChar)
                       /\ tk.unbalanced =>
                              \A q \in (o + 1)..Len(text) :
                                  CountOf(text, o, q, openChar)
                                      > CountOf(text, o, q, closeChar)

\* a bypass that skips a group of another family holding its own closer
C15_Witness ==
    /\ pc = "tokenized"
    /\ text = <<"-", "-", "-", "(", "[", ")", "]", ")">>
    /\ Len(tokens) = 1
    /\ IsBracketBypass(1)
    /\ ~tokens[1].unbalanced
    /\ tokens[1].end = Len(text)

\* a bypass whose bracket is never closed
C15_WitnessUnclosed ==
    /\ pc = "tokenized"
    /\ text = <<"-", "-", "-", "(", "(", ")", "]">>
    /\ IsBracketBypass(1)
    /\ tokens[1].unbalanced
    /\ tokens[1].end = Len(text)

\* C16: a bypass whose marker is not directly followed by `(`, `[` or `{` runs
\* from the marker up to the next comma, or to the end of the input when no
\* comma follows; it holds no comma and is never marked unbalanced.
C16_SimpleBypassExtent ==
    \A i \in 1..Len(tokens) :
        (tokens[i].type = TAG_BYPASS /\ ~IsBracketBypass(i)) =>
            LET tk == tokens[i]
                commas == {q \in (tk.start + 3)..(Len(text) - 1) : At(text, q) = ","}
            IN  /\ StartsWith(text, tk.start, <<"-", "-", "-">>)
                /\ At(text, tk.start + 3) \notin Openers
                /\ tk.value = Substring(text, tk.start, tk.end)
                /\ tk.end = IF commas = {} THEN Len(text)
                            ELSE CHOOSE q \in commas : \A r \in commas : q <= r
                /\ "," \notin Range(tk.value)
                /\ ~tk.unbalanced

\* a simple bypass that stops before a comma
C16_Witness ==
    /\ pc = "tokenized"
    /\ text = <<"-", "-", "-", "a", ",">>
    /\ Len(tokens) = 2
    /\ tokens[1].type = TAG_BYPASS
    /\ tokens[1].value = <<"-", "-", "-", "a">>
    /\ tokens[2].value = <<",">>

\* a step of one of the highlighter's own operations: every handler and
\* callback but the user's edit itself
HighlighterStep ==
    \/ DeferredSetup
    \/ KeydownEnter
    \/ Scroll
    \/ Resize
    \/ Focus
    \/ DebounceFire
    \/ EnterFire
    \/ FrameFire
    \/ SetEnabled
    \/ LoadedGraphNode
    \/ OnRemoved
    \/ PeerTokenize

\* C17: no highlighter operation (tokenizing, rendering, toggling, resizing,
\* scrolling, destroying, any timer callback) changes the textarea's value; the
\* value changes only in a step where the user edits it.
C17_ValueUntouched ==
    [][/\ HighlighterStep => textarea'.value = textarea.value
       /\ textarea'.value # textarea.value => Input]_vars

\* the text was rendered with escaping, scrolled, switched off and destroyed
C17_Witness ==
    /\ pc = "destroyed"
    /\ ~enabled
    /\ textarea.scrollTop = 1
    /\ textarea.value = <<"a", "<", "b", "\n", "[", "2", ":", " ", "c", "]">>
    /\ lastText = <<textarea.value>>
    /\ Len(backdrop.innerHTML) = 4
    /\ backdrop.innerHTML[1].text = <<"a", "&", "l", "t", ";", "b", "\n">>

NoBracketChars(t) == \A p \in 1..Len(t) : t[p] \notin Special

\* t holds the `---` marker somewhere
HasMarker(t) == \E p \in 0..(Len(t) - 1) : StartsWith(t, p, <<"-", "-", "-">>)

\* C19 as stated: a text without bracket characters resolves to itself,
\* whitespace-normalized.
C19_PlainTextUnchanged ==
    (pc = "done" /\ NoBracketChars(text)) => output = Normalize(text)

\* C19 amended: a text without bracket characters and without the `---` marker
\* is left as it is by the substitution and resolves to itself,
\* whitespace-normalized.
C19_PlainTextWithoutMarker ==
    (pc = "done" /\ NoBracketChars(text) /\ ~HasMarker(text)) =>
        /\ rawOutput = text
        /\ output = Normalize(text)

C19_Witness ==
    /\ pc = "done"
    /\ text = <<" ", "a", ",">>
    /\ rawOutput = text
    /\ output = <<"a", ",">>

\* the number of places of s that hold character c
Count(s, c) == Cardinality({k \in 1..Len(s) : s[k] = c})

NotSpace(c) == c # " "

\* s without its leading and trailing spaces, tabs and newlines
Core(s) ==
    LET inner == {k \in 1..Len(s) : s[k] \notin Whitespace}
    IN  IF inner = {} THEN <<>>
        ELSE SubSeq(s, CHOOSE k \in inner : \A j \in inner : k <= j,
                       CHOOSE k \in inner : \A j \in inner : k >= j)

\* the three rules were applied: no run of two spaces, no space before a comma,
\* no whitespace at either end
RulesApplied(s) ==
    /\ \A k \in 1..(Len(s) - 1) : s[k] = " " => s[k + 1] \notin {" ", ","}
    /\ Len(s) > 0 => (s[1] \notin Whitespace /\ s[Len(s)] \notin Whitespace)

\* C20 as stated: the normalizer applies the three rules in order and, for
\* every input, leaves every newline and every tab in place and keeps the
\* order of the text.
C20_NormalizerKeepsNewlines ==
    pc = "normalized" =>
        /\ output = Normalize(rawOutput)
        /\ RulesApplied(output)
        /\ Count(output, "\n") = Count(rawOutput, "\n")
        /\ Count(output, "\t") = Count(rawOutput, "\t")
        /\ SelectSeq(output, NotSpace) = SelectSeq(rawOutput, NotSpace)

\* C20 amended: the normalizer applies the three rules in order; the only
\* newlines and tabs it removes are those rule 3 trims at the two ends of the
\* string; between the ends it removes spaces only, so every other character,
\* newline and tab stays, in the same order.
C20_NormalizerKeepsInnerNewlines ==
    /\ pc = "comma" => output = CollapseSpaces(rawOutput)
    /\ pc = "trim" => output = RemoveSpaceBeforeComma(CollapseSpaces(rawOutput))
    /\ pc \in {"comma", "trim"} =>
           /\ SelectSeq(output, NotSpace) = SelectSeq(rawOutput, NotSpace)
           /\ Len(output) <= Len(rawOutput)
    /\ pc = "normalized" =>
           /\ output = Normalize(rawOutput)
           /\ RulesApplied(output)
           /\ SelectSeq(output, NotSpace) = SelectSeq(Core(rawOutput), NotSpace)
           /\ Count(output, "\n") = Count(Core(rawOutput), "\n")
           /\ Count(output, "\t") = Count(Core(rawOutput), "\t")

\* a newline inside the string stays, the newline at its end is trimmed
C20_Witness ==
    /\ pc = "normalized"
    /\ rawOutput = <<"a", "\n", "a", "\n">>
    /\ output = <<"a", "\n", "a">>

\* two tabs in a row inside the string are left alone
C20_WitnessTabs ==
    /\ pc = "normalized"
    /\ rawOutput = <<"a", "\t", "\t", "a">>
    /\ output = rawOutput

\* what the backdrop holds after a rendering of the text t
Rendering(t) == LET r == tokenize(t) IN tokensToHTML(r.tokens, r.validation)

\* C21: highlight() is debounced: at most one debounce timer is pending, and it
\* is pending exactly when highlight() was called (k >= 1 times) since the
\* timer last fired; when it fires, that one timer is consumed, so the k calls
\* get one _doHighlight run, and a run that renders uses the textarea's value
\* of that moment.
C21_Debounced ==
    [][/\ timers'.debounce = (IF burst' >= 1 THEN 1 ELSE 0)
       /\ DebounceFire =>
              /\ timers.debounce = 1
              /\ timers'.debounce = 0
              /\ burst' = 0
              /\ (enabled /\ lastText # <<textarea.value>>) =>
                     /\ lastText' = <<textarea.value>>
                     /\ text' = textarea.value
                     /\ backdrop'.innerHTML = Rendering(textarea.value)]_vars

\* two calls of highlight() (an edit among them) have left one timer pending,
\* and the text on display is not the textarea's any more
C21_Witness ==
    /\ burst = 2
    /\ timers.debounce = 1
    /\ highlightTimeout = "live"
    /\ enabled
    /\ lastText # <<>>
    /\ lastText # <<textarea.value>>

\* the one pending timer has fired and rendered the value of that moment
C21_WitnessFired ==
    /\ burst = 0
    /\ timers.debounce = 0
    /\ highlightTimeout = "stale"
    /\ lastText = <<textarea.value>>
    /\ textarea.value = FlagOne \o PairOne
    /\ backdrop.innerHTML = Rendering(textarea.value)

\* C22: a timer callback that finds the textarea's value equal to _lastText
\* neither tokenizes nor touches the backdrop; a step that rewrites the
\* backdrop or asks for an animation frame found the value different from
\* _lastText; and _lastText is cleared by the resize callback alone.  So the
\* debounced callback that follows an Enter-key render of the same value
\* does nothing.
C22_RenderOnlyOnChange ==
    [][/\ ((EnterFire \/ DebounceFire) /\ lastText = <<textarea.value>>) =>
              /\ UNCHANGED <<text, scanVars, backdrop, lastText>>
              /\ timers'.frame = timers.frame
       /\ (backdrop'.innerHTML # backdrop.innerHTML \/ (timers'.frame /\ ~timers.frame)) =>
              /\ enabled
              /\ lastText # <<textarea.value>>
              /\ lastText' = <<textarea.value>>
       /\ (lastText' = <<>> /\ lastText # <<>>) => Resize]_vars

\* the Enter-key timer has rendered the text with its new line, and the
\* debounce timer of the same edit is still pending
C22_Witness ==
    /\ enabled
    /\ timers.enter = 0
    /\ timers.debounce = 1
    /\ textarea.value = <<"a", "<", "b", "\n", "[", "2", ":", " ", "c", "]">>
    /\ lastText = <<textarea.value>>
    /\ backdrop.innerHTML = Rendering(textarea.value)
    /\ text = textarea.value

\* a resize has cleared _lastText under a rendering of the unchanged value
C22_WitnessResize ==
    /\ enabled
    /\ lastText = <<>>
    /\ timers.debounce = 1
    /\ backdrop.innerHTML # <<>>
    /\ backdrop.innerHTML = Rendering(textarea.value)

\* the family of a closing bracket and of an entry of the bracket stack
CloserFamily(c) == IF c = "]" THEN "square" ELSE IF c = ")" THEN "paren" ELSE "curly"

EntryFamily(e) ==
    IF e.type \in {"cond-pos", "cond-neg"} THEN "square" ELSE e.type

CloserType(c) ==
    IF c = "]" THEN COND_CLOSE ELSE IF c = ")" THEN PAREN_CLOSE ELSE CURLY_CLOSE

\* C23: when the scanner stands on a closing bracket, it emits one span for
\* it: the closing span of its family, with the top of the bracket stack
\* popped, when the top entry is of that family (a conditional directive for
\* `]`, a `(` for `)`, a `{` for `}`); an Unbalanced span, with the stack left
\* as it is, in every other case.
C23_ClosersPairWithTop ==
    [][(pc = "scan" /\ pos < Len(text) /\ At(text, pos) \in {"]", ")", "}"}) =>
           LET c == At(text, pos)
               paired == /\ Len(bracketStack) > 0
                         /\ EntryFamily(bracketStack[Len(bracketStack)]) = CloserFamily(c)
           IN  /\ pos' = pos + 1
               /\ Len(tokens') = Len(tokens) + 1
               /\ SubSeq(tokens', 1, Len(tokens)) = tokens
               /\ tokens'[Len(tokens')].value = <<c>>
               /\ tokens'[Len(tokens')].start = pos
               /\ IF paired
                  THEN /\ tokens'[Len(tokens')].type = CloserType(c)
                       /\ bracketStack' = Pop(bracketStack)
                  ELSE /\ tokens'[Len(tokens')].type = UNBALANCED
                       /\ bracketStack' = bracketStack]_vars

\* `}` met a `(` on top of a `{`: it is unbalanced and both openers stay;
\* the `)` and `}` after it were paired
C23_Witness ==
    /\ text = StrayBrace
    /\ pc = "tokenized"
    /\ Len(tokens) = 5
    /\ tokens[3].type = UNBALANCED
    /\ tokens[3].value = <<"}">>
    /\ tokens[4].type = PAREN_CLOSE
    /\ tokens[5].type = CURLY_CLOSE
    /\ bracketStack = <<>>

\* `)` met an open directive on top of the stack: unbalanced, directive still open
C23_WitnessDirective ==
    /\ text = <<"[", "1", ":", " ", ")", "]">>
    /\ pc = "scan"
    /\ pos = 5
    /\ tokens[Len(tokens)].type = UNBALANCED
    /\ Len(bracketStack) = 1
    /\ bracketStack[1].type = "cond-pos"

\* C24: every flag id the scanner has recorded, as activated (flagsUsed) or as
\* referenced (conditionalsUsed), is an integer >= 1.
C24_FlagIdsPositive ==
    \A id \in validation.flagsUsed \cup validation.conditionalsUsed : id >= 1

\* the start offsets of the directives scanned so far that were opened while
\* another directive's block was open
OpenedInsideBlock ==
    {tokens[i].start : i \in {k \in 1..Len(tokens) :
                                  IsDirective(tokens[k]) /\ OpenBefore(tokens, k) # <<>>}}

\* C25: the nested-conditional warnings are the start offsets of exactly the
\* directives that were opened while a conditional block was still open, one
\* warning each; a directive opened with no block open has none.
C25_NestedWarnings ==
    /\ Range(validation.nestedConditionals) = OpenedInsideBlock
    /\ Len(validation.nestedConditionals) = Cardinality(OpenedInsideBlock)
    /\ (conditionalDepth > 0) <=> (OpenBefore(tokens, Len(tokens) + 1) # <<>>)

\* `[1: h [2: w], s]`: the inner directive at offset 6 is flagged, the outer is not
C25_Witness ==
    /\ text = NestedBlock
    /\ pc = "tokenized"
    /\ validation.nestedConditionals = <<6>>
    /\ tokens[1].type = COND_POS_DIRECTIVE
    /\ tokens[1].start = 0

\* `[-1: a][1: b]`: the second directive follows a closed block and is not flagged
C25_WitnessSequential ==
    /\ text = PairOne
    /\ pc = "tokenized"
    /\ validation.nestedConditionals = <<>>
    /\ Cardinality({i \in 1..Len(tokens) : IsDirective(tokens[i])}) = 2

\* one closing span for each directive still open after the last span
ClosesAtEnd ==
    [k \in 1..Len(OpenBefore(tokens, Len(tokens) + 1)) |->
         Tok(COND_CLOSE, <<"]">>, Len(text) + k - 1, Len(text) + k)]

C26_WitnessDropped ==
    /\ text = <<"[", "1", ":", " ", "a">>
    /\ pc = "done"
    /\ ClosesAtEnd # <<>>
    /\ output = <<>>

\* no callback of the highlighter or of the extension is waiting to run
NoTimerPending ==
    /\ timers.debounce = 0
    /\ timers.enter = 0
    /\ ~timers.frame
    /\ ~txtNode.setup
    /\ ~txtNode.restore

\* C27: whenever highlighting is enabled and no timer is pending, whatever
\* edits, focus, Enter-key, scroll, resize and toggle events came before, the
\* backdrop holds the rendering of the textarea's current value and _lastText
\* is that value.
C27_NeverStale ==
    (enabled /\ NoTimerPending) =>
        /\ lastText = <<textarea.value>>
        /\ backdrop.innerHTML = Rendering(textarea.value)

\* the stronger form: the debounce and Enter-key timers alone matter
C27_NeverStaleStrong ==
    (enabled /\ timers.debounce = 0 /\ timers.enter = 0) =>
        /\ lastText = <<textarea.value>>
        /\ backdrop.innerHTML = Rendering(textarea.value)

\* every timer has fired and the enabled highlighter shows the textarea's
\* current text, after another highlighter's call of tokenize on another text
C27_Witness ==
    /\ pc = "live"
    /\ enabled
    /\ NoTimerPending
    /\ burst = 0
    /\ textarea.value = <<"(", "a">>
    /\ lastText = <<textarea.value>>
    /\ backdrop.display = "block"
    /\ backdrop.innerHTML = Rendering(textarea.value)
    /\ text = FlagOne \o PairOne

\* C28: once onRemoved has run for the node, the highlighters map has no entry
\* for its id and the node has no working highlighter, whether the node was
\* removed after or during the 100 ms delay of the deferred set-up.
C28_RemovedStaysRemoved ==
    txtNode.removed => (NodeId \notin highlighters /\ pc # "live")

\* C29: whenever no image-list request is in flight, the image combo lists the
\* images of the group the group combo shows (or the "[no images]" entry of a
\* failed or empty request), whatever the order the responses came in.
C29_OptionsOfSelectedGroup ==
    fetches = <<>> =>
        imageWidget.options \in {fetchImagesForGroup(groupWidget.value, "ok").value, <<NoImages>>}

\* t holds no `---`, `{`, `}` or `|`
NoBypassOrChoice(t) ==
    /\ \A p \in 0..(Len(t) - 1) : At(t, p) \notin {"{", "}", "|"}
    /\ \A p \in 0..(Len(t) - 1) : ~StartsWith(t, p, <<"-", "-", "-">>)

\* in the span sequence toks of t, every span that starts where `[-K:` is
\* written is a negative directive, and no invalid span holds a colon
NegativeDirectivesKept(t, toks) ==
    \A i \in 1..Len(toks) :
        /\ CondNegMatch(t, toks[i].start) > 0 => toks[i].type = COND_NEG_DIRECTIVE
        /\ toks[i].type = INVALID_TOKEN => \A k \in 1..Len(toks[i].value) :
                                               toks[i].value[k] # ":"

\* C30: on a text without `---`, `{`, `}` and `|` the two tokenizers of the
\* source give the same spans and the same validation sets, and in both a
\* `[-K:` is scanned as a negative directive, never as an invalid token.
C30_VersionsAgree ==
    (pc = "tokenized" /\ NoBypassOrChoice(text)) =>
        LET r2 == tokenize2(text) IN
        /\ r2.tokens = tokens
        /\ r2.validation = validation
        /\ NegativeDirectivesKept(text, tokens)
        /\ NegativeDirectivesKept(text, r2.tokens)

\* `[-1: [-1]]`: a negative directive holding an invalid token, scanned alike
C30_Witness ==
    /\ text = <<"[", "-", "1", ":", " ", "[", "-", "1", "]", "]">>
    /\ pc = "tokenized"
    /\ tokens[1].type = COND_NEG_DIRECTIVE
    /\ tokens[2].type = INVALID_TOKEN
    /\ tokens[3].type = COND_CLOSE
    /\ tokenize2(text).tokens = tokens

\* the number of conditional entries on the bracket stack st
CondEntries(st) ==
    Cardinality({k \in 1..Len(st) : st[k].type \in {"cond-pos", "cond-neg"}})

\* C31: at every point of the scan conditionalDepth is the number of cond-pos
\* and cond-neg entries on bracketStack, never negative, and a directive span
\* carries isNested exactly when its start offset is among the recorded
\* nested-conditional warnings.
C31_DepthCountsDirectives ==
    /\ conditionalDepth = CondEntries(bracketStack)
    /\ conditionalDepth >= 0
    /\ \A i \in 1..Len(tokens) :
           IsDirective(tokens[i]) =>
               (tokens[i].isNested <=>
                    tokens[i].start \in Range(validation.nestedConditionals))

\* inside `[1: h [2: w`: two directives open, the inner one marked nested
C31_Witness ==
    /\ text = NestedBlock
    /\ pc = "scan"
    /\ conditionalDepth = 2
    /\ Len(bracketStack) = 2
    /\ tokens[Len(tokens)].isNested
    /\ ~tokens[1].isNested
    /\ validation.nestedConditionals = <<6>>

\* `[1: (]`: the `]` meets a `(` on top, the directive stays open under it
C31_WitnessMixedStack ==
    /\ pc = "tokenized"
    /\ conditionalDepth = 1
    /\ Len(bracketStack) = 2
    /\ bracketStack[2].type = "paren"

\* C32: in a step that starts with highlighting disabled the backdrop's
\* content is not rewritten and no animation frame is asked for; this
\* highlighter does not tokenize (text and scan state change only by another
\* highlighter's call); highlight() from the input, focus and resize callbacks
\* sets no timer; and a debounce or Enter-key timer that fires leaves the
\* text, the tokens, the backdrop and _lastText as they were.
C32_DisabledDoesNothing ==
    [][~enabled =>
          /\ backdrop'.innerHTML = backdrop.innerHTML
          /\ timers'.frame => timers.frame
          /\ ~PeerTokenize => UNCHANGED <<text, scanVars>>
          /\ (Input \/ Focus \/ Resize) => UNCHANGED <<highlightTimeout, timers, burst>>
          /\ (DebounceFire \/ EnterFire) =>
                 UNCHANGED <<text, scanVars, backdrop, lastText>>]_vars

\* the debounce timer of the constructor's highlight() was pending when
\* setEnabled(false) ran; it has fired and nothing was rendered for the
\* non-empty text
C32_Witness ==
    /\ pc = "live"
    /\ ~enabled
    /\ highlightTimeout = "stale"
    /\ timers.debounce = 0
    /\ textarea.value = FlagOne \o PairOne
    /\ lastText = <<>>
    /\ backdrop.innerHTML = <<>>
    /\ backdrop.display = "none"

\* w2 is what updateComboOptions makes of the combo w: the value is one of
\* the new options when there are any, the old value if that is among them,
\* else the first option, or the empty string without options
ComboUpdated(w, w2) ==
    LET o == w2.options IN
    /\ o # <<>> => w2.value \in Range(o)
    /\ w.value \in Range(o) => w2.value = w.value
    /\ w.value \notin Range(o) => w2.value = (IF o = <<>> THEN "" ELSE o[1])

\* updateComboOptions leaves a missing widget and a widget without options
\* as they are, whatever the list
MissingWidgetUntouched ==
    \A o \in GroupBodies \cup {<<NoImages>>, <<"a.png", "b.png">>} :
        /\ updateComboOptions(<<>>, o) = <<>>
        /\ updateComboOptions([value |-> "a.png"], o) = [value |-> "a.png"]

\* C33: the step that ends an image-list request leaves the image combo with
\* the list received as its options and with a value as updateComboOptions
\* sets it (kept if among the options, else the first option); the step that
\* ends a group-list request does the same to the group combo, whose value is
\* the empty string when the list is empty; and a missing widget or a widget
\* without options comes back as it was.
C33_ComboKeepsMember ==
    [][/\ MissingWidgetUntouched
       /\ \A k \in 1..Len(fetches) :
              /\ (fetches[k].op = "images" /\ fetches' = FetchesWithout(k)) =>
                     /\ ComboUpdated(imageWidget, imageWidget')
                     /\ imageWidget'.options \in
                            {<<NoImages>>} \cup
                            (IF fetches[k].group = "cats" THEN {<<"a.png", "b.png">>} ELSE {})
              /\ (/\ fetches[k].op = "groups"
                  /\ Len(fetches') = Len(fetches)
                  /\ fetches'[k].op = "images") =>
                     /\ ComboUpdated(groupWidget, groupWidget')
                     /\ groupWidget'.options \in GroupBodies \cup {<<DEFAULT_GROUP>>}]_vars

\* the images of `cats` have arrived while the combo showed `[no images]`:
\* the first image is selected and its preview is loading
C33_Witness ==
    /\ groupWidget.value = "cats"
    /\ imageWidget = [value |-> "a.png", options |-> <<"a.png", "b.png">>]
    /\ fetches = <<>>
    /\ imgs = <<>>
    /\ loads = {[group |-> "cats", filename |-> "a.png"]}

\* an empty group list has arrived: the group combo's value is the empty string
C33_WitnessEmpty ==
    /\ groupWidget = [value |-> "", options |-> <<>>]
    /\ Len(fetches) = 1
    /\ fetches[1] = Request("images", "", "")

\* the second image was selected and the same list arrived again: kept
C33_WitnessKept ==
    /\ groupWidget.value = "cats"
    /\ imageWidget = [value |-> "b.png", options |-> <<"a.png", "b.png">>]
    /\ fetches = <<>>
    /\ imgs = <<[group |-> "cats", filename |-> "b.png"]>>
    /\ loads = {[group |-> "cats", filename |-> "b.png"]}

\* what the three functions give for a request that ends otherwise than with
\* an OK JSON response, and fetchImagesForGroup for every request: no
\* exception, the default group, the placeholder, null; never an empty list
FailuresAnswered ==
    /\ \A resp \in Responses \ {"ok"} :
           /\ \A body \in GroupBodies :
                  fetchGroups(resp, body) = [threw |-> FALSE, value |-> <<DEFAULT_GROUP>>]
           /\ \A g \in Groups \cup {""} :
                  fetchImagesForGroup(g, resp) = [threw |-> FALSE, value |-> <<NoImages>>]
           /\ \A f \in Files :
                  uploadImageToGroup(f, resp) = [threw |-> FALSE, value |-> <<>>]
    /\ \A resp \in Responses, g \in Groups \cup {""} :
           /\ ~fetchImagesForGroup(g, resp).threw
           /\ fetchImagesForGroup(g, resp).value # <<>>
           /\ ImagesOf(g) = <<>> => fetchImagesForGroup(g, resp).value = <<NoImages>>
    /\ \A body \in GroupBodies, f \in Files :
           /\ ~fetchGroups("ok", body).threw
           /\ ~uploadImageToGroup(f, "ok").threw

\* C34: fetchGroups, fetchImagesForGroup and uploadImageToGroup let no
\* exception out and answer a failed request with the default group
\* `Unsorted`, the placeholder `[no images]` (also for a group without
\* images) and null; so no handler of the load-image node is cut short by
\* an exception, the image combo's list is never empty, and the step that
\* ends the request for the images of a group without images leaves the
\* image combo with the placeholder alone.
C34_FetchersNeverThrow ==
    [][/\ FailuresAnswered
       /\ pc' = "images"
       /\ imageWidget'.options # <<>>
       /\ \A k \in 1..Len(fetches) :
              (/\ fetches[k].op \in {"images", "uploaded"}
               /\ fetches[k].group # "cats"
               /\ fetches' = FetchesWithout(k)) =>
                  imageWidget'.options = <<NoImages>>]_vars

\* after an image of `cats` had loaded, a refresh met a failing server: the
\* group list is the default group alone and the image list the placeholder
C34_Witness ==
    /\ pc = "images"
    /\ groupWidget = [value |-> DEFAULT_GROUP, options |-> <<DEFAULT_GROUP>>]
    /\ imageWidget = [value |-> NoImages, options |-> <<NoImages>>]
    /\ fetches = <<>>
    /\ imgs = <<[group |-> "cats", filename |-> "a.png"]>>

\* C36: the step that ends an image-list request with the placeholder list
\* `[no images]` leaves the node without a displayed image (node.imgs empty)
\* and starts no image load.
C36_PlaceholderClearsPreview ==
    [][\A k \in 1..Len(fetches), resp \in Responses :
           (FetchDoneAt(k, resp) /\ imageWidget'.options = <<NoImages>>) =>
               /\ imgs' = <<>>
               /\ loads' = loads]_vars

\* the group combo is back on the empty group `Unsorted`, the image combo
\* shows the placeholder, nothing is in flight, and the node still displays
\* the image of `cats`
C36_StalePreview ==
    /\ groupWidget = [value |-> DEFAULT_GROUP, options |-> <<DEFAULT_GROUP, "cats">>]
    /\ imageWidget = [value |-> NoImages, options |-> <<NoImages>>]
    /\ fetches = <<>>
    /\ loads = {}
    /\ imgs = <<[group |-> "cats", filename |-> "a.png"]>>

\* C37: once destroy() has run, no step rewrites the backdrop or _lastText,
\* this highlighter tokenizes nothing (text and scan state change only by
\* another highlighter's call), and no debounce or Enter-key timer is set.
C37_DestroyedIsQuiet ==
    [][pc = "destroyed" =>
          /\ backdrop'.innerHTML = backdrop.innerHTML
          /\ lastText' = lastText
          /\ ~PeerTokenize => UNCHANGED <<text, scanVars>>
          /\ timers'.debounce <= timers.debounce
          /\ timers'.enter <= timers.enter
          /\ timers'.frame => timers.frame]_vars

\* the entries of items that are not null, in order
NonNull(items) == SelectSeq(items, LAMBDA e : e # <<>>)

\* the read-only widgets for the strings vals, named from index first on
PreviewWidgets(vals, first) ==
    [k \in 1..Len(vals) |-> [name |-> <<"preview", first + k - 1>>,
                             value |-> vals[k][1],
                             readOnly |-> TRUE]]

\* C35: an onExecuted call whose message carries text leaves the preview
\* node's widget list as the converted input widget, when the node has one,
\* followed by one read-only widget for each entry of the text that is not
\* null, in order, and nothing else: no widget of an earlier call stays.
C35_PreviewsReplaced ==
    [][\A txt \in Texts :
           (OnExecutedWith(txt) /\ txt.kind # "undefined" /\ txt.items # <<<<"">>>>) =>
               LET kept == IF previewNode.converted THEN <<TextWidget>> ELSE <<>>
               IN  previewNode'.widgets =
                       kept \o PreviewWidgets(NonNull(txt.items), Len(kept))]_vars

\* after a result of three previews, the result [null, "b", "a"] on a node
\* with a converted input: the input widget and two previews
C35_Witness ==
    /\ previewNode.converted
    /\ previewNode.frame
    /\ Len(previewNode.widgets) = 3
    /\ previewNode.widgets[1] = TextWidget
    /\ previewNode.widgets[2] = [name |-> <<"preview", 1>>, value |-> "b", readOnly |-> TRUE]
    /\ previewNode.widgets[3] = [name |-> <<"preview", 2>>, value |-> "a", readOnly |-> TRUE]

\* an empty text array has removed every preview, and the unconverted text
\* widget with them
C35_WitnessEmptied ==
    /\ ~previewNode.converted
    /\ previewNode.widgets = <<>>
    /\ previewNode.frame
    /\ ~previewNode.configured

====
